---------------------------- MODULE Spec2Model ----------------------------
(***************************************************************************)
(* Model of the zellinotes recipe service: the mapping between the typed   *)
(* Recipe and the loosely typed BSON Document (src/model), the closed      *)
(* enumerations, and the Pagination descriptor.                            *)
(*                                                                         *)
(* BSON values are tagged records [t |-> <type>, v |-> <payload>]; a       *)
(* Document is a function from the keys it holds to BSON values, so an     *)
(* absent key and a key holding Null are different things.  Rust's         *)
(* Result and Option are the tagged records Ok/Err and Some/None.          *)
(***************************************************************************)
EXTENDS Integers, Sequences, FiniteSets, TLC

VARIABLES
    pc,         \* position of the run: what has been called last
    recipe,     \* the Recipe in memory (None when the run starts from a Document)
    doc,        \* the Document under conversion
    edits,      \* number of fields set / keys inserted or removed so far
    parsed,     \* result of the last Recipe::try_from(doc)
    parsed0,    \* result of the parse before the last re-serialisation
    doc0,       \* the Document that parse was given
    extracted,  \* result of the last direct Recipe::extract_* call
    call,       \* last call of a function, handler or Dao method, and what it returned
    collection, \* the documents of the store's recipe collection, in insertion order
    db_ops,     \* driver operations the last handler or Dao call issued
    inserted,   \* how many ObjectIds the driver has generated for inserted documents
    pending     \* Dao calls of concurrent requests that have not reached the store yet

vars == <<pc, recipe, doc, edits, parsed, parsed0, doc0, extracted, call, collection, db_ops,
          inserted, pending>>

---------------------------------------------------------------------------
(* Bounds of the model *)

\* i32 and u32 are modelled IntBits wide (two's complement); must be >= 3
IntBits == 3
\* how many fields of a Recipe, or keys of a Document, a run may set
MaxEdits == 1
\* usize values of Pagination range over 0..MaxPage
MaxPage == 2
\* how many fields of a stored document may be invalid at once
MaxInvalid == 3
\* how many documents a run may insert into the recipe collection
MaxStored == 2

I32_MIN == -(2 ^ (IntBits - 1))
I32_MAX == 2 ^ (IntBits - 1) - 1
U32_MAX == 2 ^ IntBits - 1

I32 == I32_MIN .. I32_MAX
U32 == 0 .. U32_MAX

---------------------------------------------------------------------------
(* Result and Option *)

Ok(x) == [t |-> "Ok", v |-> x]
Err(e) == [t |-> "Err", e |-> e]
Some(x) == [t |-> "Some", v |-> x]
None == [t |-> "None"]

is_ok(r) == r.t = "Ok"
is_err(r) == r.t = "Err"
is_some(o) == o.t = "Some"
is_none(o) == o.t = "None"

---------------------------------------------------------------------------
(* Integer casts *)

\* `x as u32` of an i32 x: reinterprets the bits
as_u32(x) == IF x < 0 THEN x + 2 ^ IntBits ELSE x

\* `a as i32` of a u32 a: reinterprets the bits
as_i32(a) == IF a > I32_MAX THEN a - 2 ^ IntBits ELSE a

---------------------------------------------------------------------------
(* BSON values and the typed accessors of bson::Document *)

Bson_Null == [t |-> "Null"]
Bson_Int32(n) == [t |-> "Int32", v |-> n]
Bson_Int64(n) == [t |-> "Int64", v |-> n]
Bson_Boolean(b) == [t |-> "Boolean", v |-> b]
Bson_String(s) == [t |-> "String", v |-> s]
Bson_ObjectId(o) == [t |-> "ObjectId", v |-> o]
Bson_DateTime(d) == [t |-> "DateTime", v |-> d]
Bson_Array(a) == [t |-> "Array", v |-> a]
Bson_Document(d) == [t |-> "Document", v |-> d]

\* Document::new()
Document_new == <<>>

\* doc.insert(key, value): sets the key, replacing what it held
Document_insert(d, key, value) ==
    [k \in DOMAIN d \cup {key} |-> IF k = key THEN value ELSE d[k]]

\* doc.remove(key)
Document_remove(d, key) == [k \in DOMAIN d \ {key} |-> d[k]]

\* doc.get(key)
Document_get(d, key) == IF key \in DOMAIN d THEN Some(d[key]) ELSE None

\* the typed getters: Err(NotPresent) for an absent key, Err(UnexpectedType)
\* for a value of another type
Document_get_typed(d, key, type) ==
    IF key \notin DOMAIN d THEN Err("NotPresent")
    ELSE IF d[key].t # type THEN Err("UnexpectedType")
    ELSE Ok(d[key].v)

Document_get_i32(d, key) == Document_get_typed(d, key, "Int32")
Document_get_str(d, key) == Document_get_typed(d, key, "String")
Document_get_array(d, key) == Document_get_typed(d, key, "Array")
Document_get_datetime(d, key) == Document_get_typed(d, key, "DateTime")
Document_get_object_id(d, key) == Document_get_typed(d, key, "ObjectId")

\* Bson::as_str / Bson::as_document
Bson_as_str(b) == IF b.t = "String" THEN Some(b.v) ELSE None
Bson_as_document(b) == IF b.t = "Document" THEN Some(b.v) ELSE None

\* Faulty variants of Bson::from(u32): a value above i32::MAX is stored as
\* Int64, or every value is
Bson_from_u32_widening(a) == IF a > I32_MAX THEN Bson_Int64(a) ELSE Bson_Int32(a)
Bson_from_u32_as_i64(a) == Bson_Int64(a)

\* Bson::from(u32) of bson 1.x: Bson::Int32(a as i32)
Bson_from_u32(a) == Bson_Int32(as_i32(a))

\* iter.map(f).collect::<Option<Vec<_>>>() over Options: None at the first None
RECURSIVE collect_option(_)
collect_option(s) ==
    IF s = <<>> THEN Some(<<>>)
    ELSE IF is_none(Head(s)) THEN None
    ELSE LET rest == collect_option(Tail(s))
         IN  IF is_none(rest) THEN None ELSE Some(<<Head(s).v>> \o rest.v)

\* iter.map(f).collect::<Result<Vec<_>, E>>(): the first Err
RECURSIVE collect_result(_)
collect_result(s) ==
    IF s = <<>> THEN Ok(<<>>)
    ELSE IF is_err(Head(s)) THEN Head(s)
    ELSE LET rest == collect_result(Tail(s))
         IN  IF is_err(rest) THEN rest ELSE Ok(<<Head(s).v>> \o rest.v)

---------------------------------------------------------------------------
(* model/difficulty.rs *)

\* enum Difficulty
Difficulty == {"Difficulty::Easy", "Difficulty::Medium", "Difficulty::Hard"}

\* impl fmt::Display for Difficulty: write!(f, "{:?}", self), the variant's name
Difficulty_to_string(d) ==
    CASE d = "Difficulty::Easy" -> "Easy"
      [] d = "Difficulty::Medium" -> "Medium"
      [] d = "Difficulty::Hard" -> "Hard"

\* Faulty variant of Difficulty::try_from: the match ignores case
Difficulty_try_from_ignore_case(value) ==
    CASE value \in {"Easy", "easy", "EASY"} -> Ok("Difficulty::Easy")
      [] value \in {"Medium", "medium", "MEDIUM"} -> Ok("Difficulty::Medium")
      [] value \in {"Hard", "hard", "HARD"} -> Ok("Difficulty::Hard")
      [] OTHER -> Err("Difficulty does not match one predefined value")

\* impl TryFrom<&str> for Difficulty
Difficulty_try_from(value) ==
    CASE value = "Easy" -> Ok("Difficulty::Easy")
      [] value = "Medium" -> Ok("Difficulty::Medium")
      [] value = "Hard" -> Ok("Difficulty::Hard")
      [] OTHER -> Err("Difficulty does not match one predefined value")

\* impl From<Difficulty> for Bson
Bson_from_Difficulty(difficulty) == Bson_String(Difficulty_to_string(difficulty))

---------------------------------------------------------------------------
(* model/measurement_unit.rs *)

STR_KILOGRAMM == "Kilogramm"
STR_GRAMM == "Gramm"
STR_MILLILITER == "Milliliter"
STR_LITER == "Liter"
STR_PIECE == "Piece"
STR_PACK == "Pack"

\* enum MeasurementUnit
MeasurementUnit ==
    {"MeasurementUnit::Kilogramm", "MeasurementUnit::Gramm",
     "MeasurementUnit::Milliliter", "MeasurementUnit::Liter",
     "MeasurementUnit::Piece", "MeasurementUnit::Pack"}

\* Faulty variant of MeasurementUnit's Display: the English spelling
MeasurementUnit_to_string_english(u) ==
    CASE u = "MeasurementUnit::Kilogramm" -> "Kilogram"
      [] u = "MeasurementUnit::Gramm" -> "Gram"
      [] u = "MeasurementUnit::Milliliter" -> "Milliliter"
      [] u = "MeasurementUnit::Liter" -> "Liter"
      [] u = "MeasurementUnit::Piece" -> "Piece"
      [] u = "MeasurementUnit::Pack" -> "Pack"

\* impl fmt::Display for MeasurementUnit: write!(f, "{:?}", self)
MeasurementUnit_to_string(u) ==
    CASE u = "MeasurementUnit::Kilogramm" -> "Kilogramm"
      [] u = "MeasurementUnit::Gramm" -> "Gramm"
      [] u = "MeasurementUnit::Milliliter" -> "Milliliter"
      [] u = "MeasurementUnit::Liter" -> "Liter"
      [] u = "MeasurementUnit::Piece" -> "Piece"
      [] u = "MeasurementUnit::Pack" -> "Pack"

\* impl TryFrom<&str> for MeasurementUnit
MeasurementUnit_try_from(value) ==
    CASE value = STR_KILOGRAMM -> Ok("MeasurementUnit::Kilogramm")
      [] value = STR_GRAMM -> Ok("MeasurementUnit::Gramm")
      [] value = STR_MILLILITER -> Ok("MeasurementUnit::Milliliter")
      [] value = STR_LITER -> Ok("MeasurementUnit::Liter")
      [] value = STR_PIECE -> Ok("MeasurementUnit::Piece")
      [] value = STR_PACK -> Ok("MeasurementUnit::Pack")
      [] OTHER -> Err("Could not create MeasurementUnit from string")

\* impl From<MeasurementUnit> for Bson
Bson_from_MeasurementUnit(unit) == Bson_String(MeasurementUnit_to_string(unit))

---------------------------------------------------------------------------
(* model/ingredients.rs *)

ING_ATTR_ID == "id"
ING_ATTR_TITLE == "title"
ING_ATTR_AMOUNT == "amount"
ING_ATTR_MEASUREMENT_UNIT == "measurementUnit"

\* Ingredient::new
Ingredient_new(id, amount, title, measurement_unit) ==
    [id |-> id, amount |-> amount, title |-> title,
     measurement_unit |-> measurement_unit]

\* Faulty variant of Ingredient::try_from: an amount that cannot be read counts as 0
Ingredient_try_from_default_amount(bson) ==
    LET d == Bson_as_document(bson) IN
    IF is_none(d) THEN Err("Error getting ingredients from document")
    ELSE
    LET id == Document_get_str(d.v, ING_ATTR_ID)
        amount == Document_get_i32(d.v, ING_ATTR_AMOUNT)
        title == Document_get_str(d.v, ING_ATTR_TITLE)
        unit_str == Document_get_str(d.v, ING_ATTR_MEASUREMENT_UNIT)
    IN  IF is_err(id) THEN Err("Error getting id from ingredient from document")
        ELSE IF is_err(title)
            THEN Err("Error getting title from ingredient from document")
        ELSE IF is_err(unit_str) \/ is_err(MeasurementUnit_try_from(unit_str.v))
            THEN Err("Error converting measurement unit from ingredient to enum")
        ELSE Ok(Ingredient_new(id.v, IF is_err(amount) THEN 0 ELSE amount.v, title.v,
                               MeasurementUnit_try_from(unit_str.v).v))

\* impl TryFrom<Bson> for Ingredient: the fields are read in the order
\* id, amount, title, measurementUnit and the first failure is returned
Ingredient_try_from(bson) ==
    LET d == Bson_as_document(bson) IN
    IF is_none(d) THEN Err("Error getting ingredients from document")
    ELSE
    LET id == Document_get_str(d.v, ING_ATTR_ID)
        amount == Document_get_i32(d.v, ING_ATTR_AMOUNT)
        title == Document_get_str(d.v, ING_ATTR_TITLE)
        unit_str == Document_get_str(d.v, ING_ATTR_MEASUREMENT_UNIT)
    IN  IF is_err(id) THEN Err("Error getting id from ingredient from document")
        ELSE IF is_err(amount)
            THEN Err("Error getting amount from ingredient from document")
        ELSE IF is_err(title)
            THEN Err("Error getting title from ingredient from document")
        ELSE IF is_err(unit_str) \/ is_err(MeasurementUnit_try_from(unit_str.v))
            THEN Err("Error converting measurement unit from ingredient to enum")
        ELSE Ok(Ingredient_new(id.v, amount.v, title.v,
                               MeasurementUnit_try_from(unit_str.v).v))

\* Faulty variant of Bson::from(Ingredient): the unit is written under the
\* field's Rust name
Bson_from_Ingredient_snake_case_unit(ing) ==
    Bson_Document(
        [k \in {ING_ATTR_ID, ING_ATTR_AMOUNT, ING_ATTR_TITLE, "measurement_unit"} |->
            CASE k = ING_ATTR_ID -> Bson_String(ing.id)
              [] k = ING_ATTR_AMOUNT -> Bson_Int32(ing.amount)
              [] k = ING_ATTR_TITLE -> Bson_String(ing.title)
              [] OTHER -> Bson_from_MeasurementUnit(ing.measurement_unit)])

\* impl From<Ingredient> for Bson
Bson_from_Ingredient(ing) ==
    Bson_Document(
        Document_insert(
            Document_insert(
                Document_insert(
                    Document_insert(Document_new, ING_ATTR_ID, Bson_String(ing.id)),
                    ING_ATTR_AMOUNT, Bson_Int32(ing.amount)),
                ING_ATTR_TITLE, Bson_String(ing.title)),
            ING_ATTR_MEASUREMENT_UNIT,
            Bson_from_MeasurementUnit(ing.measurement_unit)))

---------------------------------------------------------------------------
(* model/recipe.rs *)

JSON_ATTR_ID == "_id"
JSON_ATTR_COOKING_TIME == "cookingTimeInMinutes"
JSON_ATTR_CREATED == "created"
JSON_ATTR_LAST_MODIFIED == "last_modified"
JSON_ATTR_INGREDIENTS == "ingredients"
JSON_ATTR_VERSION == "version"
JSON_ATTR_DIFFICULTY == "difficulty"
JSON_ATTR_DESCRIPTION == "description"
JSON_ATTR_TITLE == "title"
JSON_ATTR_TAGS == "tags"
JSON_ATTR_IMAGE == "image"
JSON_ATTR_INSTRUCTIONS == "instructions"
JSON_ATTR_DEFAULT_SERVINGS == "defaultServings"

\* impl From<&str> for RecipeFormatError
RecipeFormatError(error) == Err(error)

extract_difficulty(d) ==
    LET s == Document_get_str(d, JSON_ATTR_DIFFICULTY)
    IN  IF is_err(s)
        THEN RecipeFormatError("Error getting difficulty from document")
        ELSE Difficulty_try_from(s.v)

\* Faulty variant of extract_description: an empty description is rejected
extract_description_non_empty(d) ==
    LET s == Document_get_str(d, JSON_ATTR_DESCRIPTION)
    IN  IF is_err(s) \/ s.v = ""
        THEN RecipeFormatError("Error getting description from document")
        ELSE Ok(s.v)

extract_description(d) ==
    LET s == Document_get_str(d, JSON_ATTR_DESCRIPTION)
    IN  IF is_err(s)
        THEN RecipeFormatError("Error getting description from document")
        ELSE Ok(s.v)

\* Faulty variant of extract_tags: elements that are no strings are skipped
extract_tags_skip_non_strings(d) ==
    LET a == Document_get_array(d, JSON_ATTR_TAGS)
    IN  IF is_err(a) THEN RecipeFormatError("Error getting tag from document")
        ELSE LET strs == SelectSeq([i \in 1 .. Len(a.v) |-> Bson_as_str(a.v[i])], is_some)
             IN  Ok([i \in 1 .. Len(strs) |-> strs[i].v])

extract_tags(d) ==
    LET a == Document_get_array(d, JSON_ATTR_TAGS)
    IN  IF is_err(a) THEN RecipeFormatError("Error getting tag from document")
        ELSE LET tags == collect_option([i \in 1 .. Len(a.v) |-> Bson_as_str(a.v[i])])
             IN  IF is_none(tags)
                 THEN RecipeFormatError("Error getting tag from document")
                 ELSE Ok(tags.v)

\* Faulty variant of extract_image: an absent key counts as no image
extract_image_absent_is_none(d) ==
    LET b == Document_get(d, JSON_ATTR_IMAGE)
    IN  IF is_none(b) \/ b.v.t = "Null" THEN Ok(None)
        ELSE IF b.v.t = "ObjectId" THEN Ok(Some(b.v.v))
        ELSE RecipeFormatError("Error getting image from document")

extract_image(d) ==
    LET b == Document_get(d, JSON_ATTR_IMAGE)
    IN  IF is_some(b) /\ b.v.t = "Null" THEN Ok(None)
        ELSE IF is_some(b) /\ b.v.t = "ObjectId" THEN Ok(Some(b.v.v))
        ELSE RecipeFormatError("Error getting image from document")

extract_instructions(d) ==
    LET a == Document_get_array(d, JSON_ATTR_INSTRUCTIONS)
    IN  IF is_err(a)
        THEN RecipeFormatError("Error getting instructions from document")
        ELSE LET ins == collect_option([i \in 1 .. Len(a.v) |-> Bson_as_str(a.v[i])])
             IN  IF is_none(ins)
                 THEN RecipeFormatError("Error getting instructions from document")
                 ELSE Ok(ins.v)

\* Faulty variant of extract_default_servings: the bound of extract_cooking_time
extract_default_servings_clamp_at_zero(d) ==
    LET x == Document_get_i32(d, JSON_ATTR_DEFAULT_SERVINGS)
    IN  IF is_err(x)
        THEN RecipeFormatError("Error getting default_servings from document")
        ELSE Ok(IF x.v < 0 THEN 0 ELSE as_u32(x.v))

extract_default_servings(d) ==
    LET x == Document_get_i32(d, JSON_ATTR_DEFAULT_SERVINGS)
    IN  IF is_err(x)
        THEN RecipeFormatError("Error getting default_servings from document")
        ELSE Ok(IF x.v < 1 THEN 1 ELSE as_u32(x.v))

extract_title(d) ==
    LET s == Document_get_str(d, JSON_ATTR_TITLE)
    IN  IF is_err(s) THEN RecipeFormatError("Error getting title from document")
        ELSE Ok(s.v)

\* Faulty variant of extract_version: negative values are clamped to 0, as
\* extract_cooking_time does
extract_version_clamped(d) ==
    LET x == Document_get_i32(d, JSON_ATTR_VERSION)
    IN  IF is_err(x) THEN RecipeFormatError("Error getting version from document")
        ELSE Ok(IF x.v < 0 THEN 0 ELSE as_u32(x.v))

extract_version(d) ==
    LET x == Document_get_i32(d, JSON_ATTR_VERSION)
    IN  IF is_err(x) THEN RecipeFormatError("Error getting version from document")
        ELSE Ok(as_u32(x.v))

extract_created(d) ==
    LET x == Document_get_datetime(d, JSON_ATTR_CREATED)
    IN  IF is_err(x) THEN RecipeFormatError("Error getting created from document")
        ELSE Ok(x.v)

\* Faulty variant of extract_ingredients: malformed elements are skipped
extract_ingredients_skip_malformed(d) ==
    LET a == Document_get_array(d, JSON_ATTR_INGREDIENTS)
    IN  IF is_err(a)
        THEN RecipeFormatError("Error getting ingredients from document")
        ELSE LET good == SelectSeq([i \in 1 .. Len(a.v) |-> Ingredient_try_from(a.v[i])],
                                   is_ok)
             IN  Ok([i \in 1 .. Len(good) |-> good[i].v])

extract_ingredients(d) ==
    LET a == Document_get_array(d, JSON_ATTR_INGREDIENTS)
    IN  IF is_err(a)
        THEN RecipeFormatError("Error getting ingredients from document")
        ELSE collect_result(
                 [i \in 1 .. Len(a.v) |->
                     IF is_err(Ingredient_try_from(a.v[i]))
                     THEN RecipeFormatError("")
                     ELSE Ingredient_try_from(a.v[i])])

extract_last_modified(d) ==
    LET x == Document_get_datetime(d, JSON_ATTR_LAST_MODIFIED)
    IN  IF is_err(x)
        THEN RecipeFormatError("Error getting last modified from document")
        ELSE Ok(x.v)

\* Faulty variant of extract_cooking_time: the cast of extract_version, no clamp
extract_cooking_time_unclamped(d) ==
    LET x == Document_get_i32(d, JSON_ATTR_COOKING_TIME)
    IN  IF is_err(x)
        THEN RecipeFormatError("Error getting cooking timefrom document")
        ELSE Ok(as_u32(x.v))

extract_cooking_time(d) ==
    LET x == Document_get_i32(d, JSON_ATTR_COOKING_TIME)
    IN  IF is_err(x)
        THEN RecipeFormatError("Error getting cooking timefrom document")
        ELSE Ok(IF x.v < 0 THEN 0 ELSE as_u32(x.v))

extract_id(d) ==
    LET x == Document_get_object_id(d, JSON_ATTR_ID)
    IN  IF is_err(x) THEN RecipeFormatError("Error getting  Object Id document")
        ELSE Ok(x.v)

\* the fields of struct Recipe, in the order Recipe::try_from extracts them
RecipeFields ==
    <<"_id", "cooking_time_in_minutes", "created", "last_modified",
      "ingredients", "version", "difficulty", "description", "title", "tags",
      "image_oid", "instructions", "default_servings">>

\* the extract_* function of a field of Recipe, applied to a document
extract_field(f, d) ==
    CASE f = "_id" -> extract_id(d)
      [] f = "cooking_time_in_minutes" -> extract_cooking_time(d)
      [] f = "created" -> extract_created(d)
      [] f = "last_modified" -> extract_last_modified(d)
      [] f = "ingredients" -> extract_ingredients(d)
      [] f = "version" -> extract_version(d)
      [] f = "difficulty" -> extract_difficulty(d)
      [] f = "description" -> extract_description(d)
      [] f = "title" -> extract_title(d)
      [] f = "tags" -> extract_tags(d)
      [] f = "image_oid" -> extract_image(d)
      [] f = "instructions" -> extract_instructions(d)
      [] f = "default_servings" -> extract_default_servings(d)

\* Faulty variant of Recipe::try_from: every field is extracted and the error
\* of the last failing one is returned
Recipe_try_from_last_error(d) ==
    LET failing == {i \in 1 .. Len(RecipeFields) : is_err(extract_field(RecipeFields[i], d))}
    IN  IF failing # {}
        THEN extract_field(RecipeFields[CHOOSE i \in failing : \A j \in failing : i >= j], d)
        ELSE Ok([f \in {RecipeFields[i] : i \in 1 .. Len(RecipeFields)} |->
                    extract_field(f, d).v])

\* impl TryFrom<Document> for Recipe: each field is extracted in turn and `?`
\* returns the first error
Recipe_try_from(d) ==
    LET failing == {i \in 1 .. Len(RecipeFields) : is_err(extract_field(RecipeFields[i], d))}
    IN  IF failing # {}
        THEN extract_field(RecipeFields[CHOOSE i \in failing : \A j \in failing : i <= j], d)
        ELSE Ok([f \in {RecipeFields[i] : i \in 1 .. Len(RecipeFields)} |->
                    extract_field(f, d).v])

\* impl From<Recipe> for Document
Document_from_Recipe(r) ==
    [k \in {JSON_ATTR_COOKING_TIME, JSON_ATTR_CREATED, JSON_ATTR_LAST_MODIFIED,
            JSON_ATTR_INGREDIENTS, JSON_ATTR_VERSION, JSON_ATTR_DIFFICULTY,
            JSON_ATTR_DESCRIPTION, JSON_ATTR_TITLE, JSON_ATTR_TAGS,
            JSON_ATTR_IMAGE, JSON_ATTR_INSTRUCTIONS, JSON_ATTR_DEFAULT_SERVINGS} |->
        CASE k = JSON_ATTR_COOKING_TIME -> Bson_from_u32(r.cooking_time_in_minutes)
          [] k = JSON_ATTR_CREATED -> Bson_DateTime(r.created)
          [] k = JSON_ATTR_LAST_MODIFIED -> Bson_DateTime(r.last_modified)
          [] k = JSON_ATTR_INGREDIENTS ->
                Bson_Array([i \in 1 .. Len(r.ingredients) |->
                               Bson_from_Ingredient(r.ingredients[i])])
          [] k = JSON_ATTR_VERSION -> Bson_from_u32(r.version)
          [] k = JSON_ATTR_DIFFICULTY -> Bson_from_Difficulty(r.difficulty)
          [] k = JSON_ATTR_DESCRIPTION -> Bson_String(r.description)
          [] k = JSON_ATTR_TITLE -> Bson_String(r.title)
          [] k = JSON_ATTR_TAGS ->
                Bson_Array([i \in 1 .. Len(r.tags) |-> Bson_String(r.tags[i])])
          [] k = JSON_ATTR_IMAGE ->
                IF is_none(r.image_oid) THEN Bson_Null
                ELSE Bson_ObjectId(r.image_oid.v)
          [] k = JSON_ATTR_INSTRUCTIONS ->
                Bson_Array([i \in 1 .. Len(r.instructions) |->
                               Bson_String(r.instructions[i])])
          [] k = JSON_ATTR_DEFAULT_SERVINGS -> Bson_from_u32(r.default_servings)]

---------------------------------------------------------------------------
(* pagination.rs *)

\* struct Pagination { page: Option<usize>, items: Option<usize>, sorting: Option<i32> }
Pagination_new(page, items, sorting) ==
    [page |-> page, items |-> items, sorting |-> sorting]

\* Faulty variant of is_fully_set: presence alone, the values are not looked at
is_fully_set_presence_only(p) ==
    is_some(p.page) /\ is_some(p.items) /\ is_some(p.sorting)

\* Pagination::is_fully_set
is_fully_set(p) ==
    /\ is_some(p.page) /\ p.page.v > 0
    /\ is_some(p.items) /\ p.items.v > 0
    /\ is_some(p.sorting) /\ (p.sorting.v = 1 \/ p.sorting.v = -1)

\* Pagination::is_fully_empty
is_fully_empty(p) ==
    is_none(p.page) /\ is_none(p.items) /\ is_none(p.sorting)

---------------------------------------------------------------------------
(* dao.rs: the recipe collection of the document store and the Dao methods *)

\* the ObjectIds the driver generates for inserted documents, in order of use
StoreIds == <<"id1", "id2", "id3", "id4", "id5">>

\* enum DaoError
DaoError_DatabaseError(m) == [t |-> "DaoError::DatabaseError", v |-> m]
DaoError_DocumentNotFound == [t |-> "DaoError::DocumentNotFound"]
DaoError_RecipeFormatError(m) == [t |-> "DaoError::RecipeFormatError", v |-> m]

\* chronological order of the timestamps (DateTime<Utc>: Ord; the store's
\* sort on a date field)
timestamp(dt) ==
    CASE dt = "2020-06-01T10:00:00Z" -> 1
      [] dt = "2020-06-02T11:30:00Z" -> 2

\* Recipe::default_projection_no_image: every field of a recipe but the image
Recipe_default_projection_no_image == [exclude |-> {JSON_ATTR_IMAGE}]

\* the filter object_id_into_doc(id): positions of the stored documents whose
\* _id is id
object_id_into_doc(coll, id) ==
    {i \in 1 .. Len(coll) :
        JSON_ATTR_ID \in DOMAIN coll[i] /\ coll[i][JSON_ATTR_ID] = Bson_ObjectId(id)}

\* {"$set": set} applied to a stored document
update_set(d, set) ==
    [k \in DOMAIN d \cup DOMAIN set |-> IF k \in DOMAIN set THEN set[k] ELSE d[k]]

\* the orders in which the server may return the collection: insertion order
\* without a sort; with {"created": s}, any order sorted by created in
\* direction s (documents with equal timestamps come in either order)
find_orders(coll, sort) ==
    IF is_none(sort) THEN {[i \in 1 .. Len(coll) |-> i]}
    ELSE {o \in [1 .. Len(coll) -> 1 .. Len(coll)] :
            /\ \A i, j \in 1 .. Len(coll) : i # j => o[i] # o[j]
            /\ \A i, j \in 1 .. Len(coll) :
                  i < j => sort.v * timestamp(coll[o[i]][JSON_ATTR_CREATED].v)
                             <= sort.v * timestamp(coll[o[j]][JSON_ATTR_CREATED].v)}

\* the document the driver sends for d: one without _id is given the
\* generated ObjectId oid, one with _id is stored under its own
with_inserted_id(d, oid) ==
    IF JSON_ATTR_ID \in DOMAIN d THEN d
    ELSE Document_insert(d, JSON_ATTR_ID, Bson_ObjectId(oid))

\* Faulty variant of add_one_recipe: the recipe is stored under its own _id
Dao_add_one_recipe_own_id(coll, r, oid, up) ==
    IF ~up
    THEN [ret |-> Err(DaoError_DatabaseError("mongodb::error::Error")), coll |-> coll,
          ops |-> <<[op |-> "insert_one", ok |-> FALSE]>>]
    ELSE LET d == with_inserted_id(Document_insert(Document_from_Recipe(r), JSON_ATTR_ID,
                                                   Bson_ObjectId(r._id)), oid)
         IN  [ret |-> Ok(d[JSON_ATTR_ID]), coll |-> Append(coll, d),
              ops |-> <<[op |-> "insert_one", ok |-> TRUE]>>]

\* Dao::add_one_recipe: insert_one(recipe.into()), the driver giving the
\* document the _id oid; up is whether the driver reaches the server
Dao_add_one_recipe(coll, r, oid, up) ==
    IF ~up
    THEN [ret |-> Err(DaoError_DatabaseError("mongodb::error::Error")), coll |-> coll,
          ops |-> <<[op |-> "insert_one", ok |-> FALSE]>>]
    ELSE LET d == with_inserted_id(Document_from_Recipe(r), oid)
         IN  [ret |-> Ok(d[JSON_ATTR_ID]), coll |-> Append(coll, d),
              ops |-> <<[op |-> "insert_one", ok |-> TRUE]>>]

\* Dao::add_many_recipes: insert_many of the recipes' documents, the driver
\* generating the ObjectIds oids for them; returns the inserted ids
Dao_add_many_recipes(coll, recipes, oids, up) ==
    IF ~up
    THEN [ret |-> Err(DaoError_DatabaseError("mongodb::error::Error")), coll |-> coll,
          ops |-> <<[op |-> "insert_many", ok |-> FALSE]>>]
    ELSE LET ds == [i \in 1 .. Len(recipes) |->
                       with_inserted_id(Document_from_Recipe(recipes[i]), oids[i])]
         IN  [ret |-> Ok(Bson_Array([i \in 1 .. Len(ds) |-> ds[i][JSON_ATTR_ID]])),
              coll |-> coll \o ds,
              ops |-> <<[op |-> "insert_many", ok |-> TRUE]>>]

\* Faulty variant of update_one_recipe_ignore_image: the image is not removed
\* from the $set document
Dao_update_one_recipe_with_image(coll, id, r, up) ==
    LET set == Document_from_Recipe(r)
        hit == object_id_into_doc(coll, id)
        first == CHOOSE i \in hit : \A j \in hit : i <= j
    IN  IF ~up
        THEN [ret |-> Err(DaoError_DatabaseError("mongodb::error::Error")), coll |-> coll,
              ops |-> <<[op |-> "update_one", ok |-> FALSE]>>]
        ELSE IF hit = {} \/ update_set(coll[first], set) = coll[first]
        THEN [ret |-> Err(DaoError_DocumentNotFound), coll |-> coll,
              ops |-> <<[op |-> "update_one", ok |-> TRUE]>>]
        ELSE [ret |-> Ok("()"),
              coll |-> [coll EXCEPT ![first] = update_set(coll[first], set)],
              ops |-> <<[op |-> "update_one", ok |-> TRUE]>>]

\* Dao::update_one_recipe_ignore_image: update_one({"_id": id}, {"$set": the
\* recipe's document without "image"}); modified_count is 0 when no document
\* matches or the matching document already holds these values
Dao_update_one_recipe_ignore_image(coll, id, r, up) ==
    LET set == Document_remove(Document_from_Recipe(r), "image")
        hit == object_id_into_doc(coll, id)
        first == CHOOSE i \in hit : \A j \in hit : i <= j
    IN  IF ~up
        THEN [ret |-> Err(DaoError_DatabaseError("mongodb::error::Error")), coll |-> coll,
              ops |-> <<[op |-> "update_one", ok |-> FALSE]>>]
        ELSE IF hit = {} \/ update_set(coll[first], set) = coll[first]
        THEN [ret |-> Err(DaoError_DocumentNotFound), coll |-> coll,
              ops |-> <<[op |-> "update_one", ok |-> TRUE]>>]
        ELSE [ret |-> Ok("()"),
              coll |-> [coll EXCEPT ![first] = update_set(coll[first], set)],
              ops |-> <<[op |-> "update_one", ok |-> TRUE]>>]

\* db_projection_only_image: {"image": 1, "_id": 0}
db_projection_only_image == [include |-> {"image"}]

\* a document as find returns it under a projection
projected(d, projection) ==
    IF "include" \in DOMAIN projection
    THEN [k \in DOMAIN d \cap projection.include |-> d[k]]
    ELSE [k \in DOMAIN d \ projection.exclude |-> d[k]]

\* Dao::get_one_recipe_without_image: find_one({"_id": id}) with the no-image
\* projection, then Recipe::try_from; a parse error becomes
\* RecipeFormatError(id.to_hex())
Dao_get_one_recipe_without_image(coll, id, up) ==
    LET hit == object_id_into_doc(coll, id)
        first == CHOOSE i \in hit : \A j \in hit : i <= j
        op == [op |-> "find_one", projection |-> Recipe_default_projection_no_image,
               ok |-> up]
    IN  IF ~up
        THEN [ret |-> Err(DaoError_DatabaseError("mongodb::error::Error")), ops |-> <<op>>]
        ELSE IF hit = {}
        THEN [ret |-> Err(DaoError_DocumentNotFound), ops |-> <<op>>]
        ELSE LET result == Recipe_try_from(
                               projected(coll[first], Recipe_default_projection_no_image))
             IN  IF is_ok(result) THEN [ret |-> Ok(result.v), ops |-> <<op>>]
                 ELSE [ret |-> Err(DaoError_RecipeFormatError(id)), ops |-> <<op>>]

\* Dao::get_one_recipe_image: find_one({"_id": id}) with the only-image
\* projection, then get_str("image"); no document, no image key and an image
\* that is not a string are all DocumentNotFound
Dao_get_one_recipe_image(coll, id, up) ==
    LET hit == object_id_into_doc(coll, id)
        first == CHOOSE i \in hit : \A j \in hit : i <= j
        op == [op |-> "find_one", projection |-> db_projection_only_image, ok |-> up]
    IN  IF ~up
        THEN [ret |-> Err(DaoError_DatabaseError("mongodb::error::Error")), ops |-> <<op>>]
        ELSE IF hit = {}
        THEN [ret |-> Err(DaoError_DocumentNotFound), ops |-> <<op>>]
        ELSE LET image == Document_get_str(projected(coll[first], db_projection_only_image),
                                           "image")
             IN  IF is_ok(image) THEN [ret |-> Ok(image.v), ops |-> <<op>>]
                 ELSE [ret |-> Err(DaoError_DocumentNotFound), ops |-> <<op>>]

\* Faulty variant of update_one_recipe_image: clearing the image removes
\* nothing, the stored image stays
Dao_update_one_recipe_image_keep_on_clear(coll, id, image, up) ==
    LET set == IF is_some(image) THEN "image" :> Bson_String(image.v) ELSE <<>>
        hit == object_id_into_doc(coll, id)
        first == CHOOSE i \in hit : \A j \in hit : i <= j
    IN  IF ~up
        THEN [ret |-> Err(DaoError_DatabaseError("mongodb::error::Error")), coll |-> coll,
              ops |-> <<[op |-> "update_one", ok |-> FALSE]>>]
        ELSE IF hit = {} \/ update_set(coll[first], set) = coll[first]
        THEN [ret |-> Err(DaoError_DocumentNotFound), coll |-> coll,
              ops |-> <<[op |-> "update_one", ok |-> TRUE]>>]
        ELSE [ret |-> Ok("()"),
              coll |-> [coll EXCEPT ![first] = update_set(coll[first], set)],
              ops |-> <<[op |-> "update_one", ok |-> TRUE]>>]

\* Dao::update_one_recipe_image: update_one({"_id": id}, {"$set": {"image":
\* the string or Null}}); modified_count is 0 when no document matches or the
\* matching document already holds that image
Dao_update_one_recipe_image(coll, id, image, up) ==
    LET set == "image" :> (IF is_some(image) THEN Bson_String(image.v) ELSE Bson_Null)
        hit == object_id_into_doc(coll, id)
        first == CHOOSE i \in hit : \A j \in hit : i <= j
    IN  IF ~up
        THEN [ret |-> Err(DaoError_DatabaseError("mongodb::error::Error")), coll |-> coll,
              ops |-> <<[op |-> "update_one", ok |-> FALSE]>>]
        ELSE IF hit = {} \/ update_set(coll[first], set) = coll[first]
        THEN [ret |-> Err(DaoError_DocumentNotFound), coll |-> coll,
              ops |-> <<[op |-> "update_one", ok |-> TRUE]>>]
        ELSE [ret |-> Ok("()"),
              coll |-> [coll EXCEPT ![first] = update_set(coll[first], set)],
              ops |-> <<[op |-> "update_one", ok |-> TRUE]>>]

\* Faulty variant of delete_one_recipe: every stored document goes
Dao_delete_all_recipes(coll, id, up) ==
    LET hit == object_id_into_doc(coll, id)
    IN  IF ~up
        THEN [ret |-> Err(DaoError_DatabaseError("mongodb::error::Error")), coll |-> coll,
              ops |-> <<[op |-> "delete_one", ok |-> FALSE]>>]
        ELSE IF hit = {}
        THEN [ret |-> Err(DaoError_DocumentNotFound), coll |-> coll,
              ops |-> <<[op |-> "delete_one", ok |-> TRUE]>>]
        ELSE [ret |-> Ok("()"), coll |-> <<>>,
              ops |-> <<[op |-> "delete_one", ok |-> TRUE]>>]

\* Dao::delete_one_recipe: delete_one({"_id": id}) removes the first matching
\* document; deleted_count 1 is Ok, anything else DocumentNotFound
Dao_delete_one_recipe(coll, id, up) ==
    LET hit == object_id_into_doc(coll, id)
        first == CHOOSE i \in hit : \A j \in hit : i <= j
    IN  IF ~up
        THEN [ret |-> Err(DaoError_DatabaseError("mongodb::error::Error")), coll |-> coll,
              ops |-> <<[op |-> "delete_one", ok |-> FALSE]>>]
        ELSE IF hit = {}
        THEN [ret |-> Err(DaoError_DocumentNotFound), coll |-> coll,
              ops |-> <<[op |-> "delete_one", ok |-> TRUE]>>]
        ELSE [ret |-> Ok("()"),
              coll |-> [i \in 1 .. Len(coll) - 1 |->
                           IF i < first THEN coll[i] ELSE coll[i + 1]],
              ops |-> <<[op |-> "delete_one", ok |-> TRUE]>>]

\* Faulty variant of get_many_recipes: a document that fails to parse is
\* left out and the well-formed recipes are returned
get_many_recipes_skip_malformed(coll, pagination, up, order) ==
    LET paged == is_some(pagination)
        skip == IF paged THEN (pagination.v.page.v - 1) * pagination.v.items.v ELSE 0
        take == IF paged THEN pagination.v.items.v ELSE Len(coll)
        sort == IF paged THEN Some(as_i32(pagination.v.sorting.v)) ELSE None
        projection == IF paged THEN Some(Recipe_default_projection_no_image) ELSE None
        found == [i \in 1 .. Len(coll) |->
                    IF paged THEN projected(coll[order[i]], projection.v)
                    ELSE coll[order[i]]]
        last == IF skip + take < Len(found) THEN skip + take ELSE Len(found)
        results == [i \in 1 .. (IF last > skip THEN last - skip ELSE 0) |->
                       Recipe_try_from(found[skip + i])]
        recipes == SelectSeq(results, is_ok)
        op == [op |-> "find", sort |-> sort, projection |-> projection,
               skip |-> skip, take |-> IF paged THEN Some(take) ELSE None, ok |-> up]
    IN  IF ~up
        THEN [ret |-> Err(DaoError_DatabaseError("mongodb::error::Error")), ops |-> <<op>>]
        ELSE [ret |-> Ok([i \in 1 .. Len(recipes) |-> recipes[i].v]), ops |-> <<op>>]

\* get_many_recipes(db, pagination): with a pagination, find sorted by
\* created with the no-image projection, then skip (page - 1) * items and
\* take items of the cursor; without one, find of everything (take is
\* usize::MAX, more than any cursor holds).  Every document found is parsed and
\* the first parse error becomes a DatabaseError.  order is the order in
\* which the server returns the collection.  The callers pass a pagination
\* only when it is fully set, so page - 1 does not underflow.
get_many_recipes(coll, pagination, up, order) ==
    LET paged == is_some(pagination)
        skip == IF paged THEN (pagination.v.page.v - 1) * pagination.v.items.v ELSE 0
        take == IF paged THEN pagination.v.items.v ELSE Len(coll)
        sort == IF paged THEN Some(as_i32(pagination.v.sorting.v)) ELSE None
        projection == IF paged THEN Some(Recipe_default_projection_no_image) ELSE None
        found == [i \in 1 .. Len(coll) |->
                    IF paged
                    THEN [k \in DOMAIN coll[order[i]] \ projection.v.exclude |->
                             coll[order[i]][k]]
                    ELSE coll[order[i]]]
        last == IF skip + take < Len(found) THEN skip + take ELSE Len(found)
        recipes == collect_result([i \in 1 .. (IF last > skip THEN last - skip ELSE 0) |->
                                      Recipe_try_from(found[skip + i])])
        op == [op |-> "find", sort |-> sort, projection |-> projection,
               skip |-> skip, take |-> IF paged THEN Some(take) ELSE None, ok |-> up]
    IN  IF ~up
        THEN [ret |-> Err(DaoError_DatabaseError("mongodb::error::Error")), ops |-> <<op>>]
        ELSE IF is_err(recipes)
        THEN [ret |-> Err(DaoError_DatabaseError(recipes.e)), ops |-> <<op>>]
        ELSE [ret |-> Ok(recipes.v), ops |-> <<op>>]

---------------------------------------------------------------------------
(* recipe_routes.rs *)

\* the response a handler builds from a Dao result
HttpResponse(ret) ==
    IF is_ok(ret) THEN [status |-> 200, body |-> Some(ret.v)]
    ELSE CASE ret.e.t = "DaoError::DatabaseError" -> [status |-> 500, body |-> None]
           [] ret.e.t = "DaoError::DocumentNotFound" -> [status |-> 404, body |-> None]
           [] ret.e.t = "DaoError::RecipeFormatError" -> [status |-> 500, body |-> None]

\* ObjectId::with_string: a string of 24 hexadecimal digits is an ObjectId.
\* The names of StoreIds stand for such strings; every other string is invalid
ObjectId_with_string(s) ==
    IF \E i \in 1 .. Len(StoreIds) : StoreIds[i] = s THEN Ok(s) ELSE Err("InvalidHexString")

\* Faulty variant of extract_id_from_req: a string that is no ObjectId is
\* passed on as if it were one
extract_id_from_req_unchecked(path_id) ==
    IF is_none(path_id) THEN None ELSE Some(path_id.v)

\* extract_id_from_req: the "id" segment of the path (None when the route has
\* none) as an ObjectId
extract_id_from_req(path_id) ==
    IF is_none(path_id) THEN None
    ELSE IF is_ok(ObjectId_with_string(path_id.v)) THEN Some(ObjectId_with_string(path_id.v).v)
    ELSE None

\* RecipeRoutes::delete_one_recipe (dao: what the Dao call returned, None when
\* none was made)
RecipeRoutes_delete_one_recipe(coll, path_id, up) ==
    LET id == extract_id_from_req(path_id)
    IN  IF is_none(id)
        THEN [response |-> [status |-> 400, body |-> None], coll |-> coll, ops |-> <<>>,
              dao |-> None]
        ELSE LET r == Dao_delete_one_recipe(coll, id.v, up)
             IN  [response |-> [status |-> HttpResponse(r.ret).status, body |-> None],
                  coll |-> r.coll, ops |-> r.ops, dao |-> Some(r.ret)]

\* RecipeRoutes::get_one_recipe_without_image
RecipeRoutes_get_one_recipe_without_image(coll, path_id, up) ==
    LET id == extract_id_from_req(path_id)
    IN  IF is_none(id)
        THEN [response |-> [status |-> 400, body |-> None], coll |-> coll, ops |-> <<>>,
              dao |-> None]
        ELSE LET r == Dao_get_one_recipe_without_image(coll, id.v, up)
             IN  [response |-> HttpResponse(r.ret), coll |-> coll, ops |-> r.ops,
                  dao |-> Some(r.ret)]

\* RecipeRoutes::delete_one_recipe_image
RecipeRoutes_delete_one_recipe_image(coll, path_id, up) ==
    LET id == extract_id_from_req(path_id)
    IN  IF is_none(id)
        THEN [response |-> [status |-> 400, body |-> None], coll |-> coll, ops |-> <<>>,
              dao |-> None]
        ELSE LET r == Dao_update_one_recipe_image(coll, id.v, None, up)
             IN  [response |-> [status |-> HttpResponse(r.ret).status, body |-> None],
                  coll |-> r.coll, ops |-> r.ops, dao |-> Some(r.ret)]

\* Faulty variant of RecipeRoutes::get_many_recipes: parameters that are not
\* fully set are ignored and everything is listed
RecipeRoutes_get_many_recipes_lenient(coll, params, up, order) ==
    LET r == IF is_fully_set(params)
             THEN get_many_recipes(coll, Some(params), up, order)
             ELSE get_many_recipes(coll, None, up, [i \in 1 .. Len(coll) |-> i])
    IN  [response |-> HttpResponse(r.ret), ops |-> r.ops]

\* RecipeRoutes::get_many_recipes
RecipeRoutes_get_many_recipes(coll, params, up, order) ==
    IF is_fully_set(params)
    THEN LET r == get_many_recipes(coll, Some(params), up, order)
         IN  [response |-> HttpResponse(r.ret), ops |-> r.ops]
    ELSE IF is_fully_empty(params)
    THEN LET r == get_many_recipes(coll, None, up, order)
         IN  [response |-> HttpResponse(r.ret), ops |-> r.ops]
    ELSE [response |-> [status |-> 400, body |-> None], ops |-> <<>>]

---------------------------------------------------------------------------
(* Inputs: the values the runs are started from and edited with *)

ObjectIds == {"oid1", "oid2"}
DateTimes == {"2020-06-01T10:00:00Z", "2020-06-02T11:30:00Z"}

cheese == Ingredient_new("0", I32_MAX, "Cheese", "MeasurementUnit::Kilogramm")
bread == Ingredient_new("1", 2, "Bread", "MeasurementUnit::Piece")
water == Ingredient_new("2", -1, "", "MeasurementUnit::Liter")

\* an ingredient document with amount as a string and no title or unit
\* (recipe_tests::extract_ingredients), and one with no amount
ing_amount_string ==
    Bson_Document([k \in {"id", "amount"} |-> Bson_String(IF k = "id" THEN "0" ELSE "100")])
ing_no_amount ==
    Bson_Document(Document_remove(Bson_from_Ingredient(bread).v, ING_ATTR_AMOUNT))
ing_unknown_unit ==
    Bson_Document(Document_insert(Bson_from_Ingredient(bread).v,
                                  ING_ATTR_MEASUREMENT_UNIT, Bson_String("kilogramm")))

\* one value of every BSON type the model has
BsonShapes ==
    {Bson_Null, Bson_Int32(1), Bson_Int64(1), Bson_Boolean(TRUE), Bson_String("Easy"),
     Bson_ObjectId("oid2"), Bson_DateTime("2020-06-02T11:30:00Z"),
     Bson_Array(<<Bson_String("vegan")>>), Bson_from_Ingredient(cheese)}

Int32Values == {Bson_Int32(n) : n \in {I32_MIN, -1, 0, 1, 2, I32_MAX}}

\* the Ingredients a run converts
Ingredients ==
    {Ingredient_new(id, amount, title, unit) :
        id \in {"0", ""}, amount \in I32, title \in {"Cheese", ""}, unit \in MeasurementUnit}

\* raw values handed to Ingredient::try_from: values that are no document, and
\* ingredient documents with one key removed, or holding a value of any type
\* or a string that is no unit literal, or with a key more
RawIngredients ==
    BsonShapes \cup
    {Bson_Document(Document_remove(Bson_from_Ingredient(i).v, k)) :
        i \in {cheese, water}, k \in DOMAIN Bson_from_Ingredient(cheese).v} \cup
    {Bson_Document(Document_insert(Bson_from_Ingredient(i).v, k, v)) :
        i \in {cheese, water},
        k \in DOMAIN Bson_from_Ingredient(cheese).v \cup {"ignore"},
        v \in BsonShapes \cup {Bson_Int32(-1)} \cup
              {Bson_String(str) : str \in {"", "Pack", "kilogramm", "Kilogram"}}}

StringArrays ==
    {Bson_Array(<<>>),
     Bson_Array(<<Bson_String("vegan"), Bson_String("fast")>>),
     Bson_Array(<<Bson_String("fast"), Bson_String("vegan"), Bson_String("")>>),
     Bson_Array(<<Bson_Null>>),
     Bson_Array(<<Bson_Null, Bson_String("vegan")>>),
     Bson_Array(<<Bson_String("vegan"), Bson_Int32(1)>>)}

IngredientArrays ==
    {Bson_Array(<<>>),
     Bson_Array(<<Bson_from_Ingredient(cheese)>>),
     Bson_Array(<<Bson_from_Ingredient(bread), Bson_from_Ingredient(cheese)>>),
     Bson_Array(<<ing_amount_string, Bson_from_Ingredient(cheese)>>),
     Bson_Array(<<Bson_from_Ingredient(cheese), ing_no_amount>>),
     Bson_Array(<<Bson_from_Ingredient(bread), ing_unknown_unit>>),
     Bson_Array(<<Bson_from_Ingredient(water), Bson_Null>>)}

\* the values a run may insert under a key: every shape, and the values of
\* interest for the field the key belongs to
KeyValues(k) ==
    BsonShapes \cup
    CASE k \in {JSON_ATTR_COOKING_TIME, JSON_ATTR_VERSION, JSON_ATTR_DEFAULT_SERVINGS}
            -> Int32Values
      [] k \in {JSON_ATTR_TAGS, JSON_ATTR_INSTRUCTIONS} -> StringArrays
      [] k = JSON_ATTR_INGREDIENTS -> IngredientArrays
      [] k = JSON_ATTR_DIFFICULTY ->
            {Bson_String(s) : s \in {"Medium", "Hard", "easy", "Super Hard", ""}}
      [] k \in {JSON_ATTR_DESCRIPTION, JSON_ATTR_TITLE} ->
            {Bson_String(""), Bson_String("Recipe title")}
      [] k \in {JSON_ATTR_ID, JSON_ATTR_IMAGE} -> {Bson_ObjectId("oid1")}
      [] OTHER -> {}

\* the keys a run may insert or remove: the mapper's thirteen, the wire
\* format's lastModified, and a key the mapper does not know
EditKeys ==
    {JSON_ATTR_ID, JSON_ATTR_COOKING_TIME, JSON_ATTR_CREATED, JSON_ATTR_LAST_MODIFIED,
     JSON_ATTR_INGREDIENTS, JSON_ATTR_VERSION, JSON_ATTR_DIFFICULTY,
     JSON_ATTR_DESCRIPTION, JSON_ATTR_TITLE, JSON_ATTR_TAGS, JSON_ATTR_IMAGE,
     JSON_ATTR_INSTRUCTIONS, JSON_ATTR_DEFAULT_SERVINGS, "lastModified", "ignore"}

\* convert_tests::create_basic_recipe_doc
create_basic_recipe_doc ==
    [k \in {JSON_ATTR_ID, JSON_ATTR_COOKING_TIME, JSON_ATTR_CREATED,
            JSON_ATTR_LAST_MODIFIED, JSON_ATTR_INGREDIENTS, JSON_ATTR_VERSION,
            JSON_ATTR_DIFFICULTY, JSON_ATTR_DESCRIPTION, JSON_ATTR_TITLE,
            JSON_ATTR_TAGS, JSON_ATTR_IMAGE, JSON_ATTR_INSTRUCTIONS,
            JSON_ATTR_DEFAULT_SERVINGS} |->
        CASE k = JSON_ATTR_ID -> Bson_ObjectId("oid1")
          [] k = JSON_ATTR_COOKING_TIME -> Bson_Int32(2)
          [] k = JSON_ATTR_CREATED -> Bson_DateTime("2020-06-01T10:00:00Z")
          [] k = JSON_ATTR_LAST_MODIFIED -> Bson_DateTime("2020-06-02T11:30:00Z")
          [] k = JSON_ATTR_INGREDIENTS ->
                Bson_Array(<<Bson_from_Ingredient(cheese), Bson_from_Ingredient(bread)>>)
          [] k = JSON_ATTR_VERSION -> Bson_Int32(1)
          [] k = JSON_ATTR_DIFFICULTY -> Bson_from_Difficulty("Difficulty::Easy")
          [] k = JSON_ATTR_DESCRIPTION -> Bson_String("Recipe desciption")
          [] k = JSON_ATTR_TITLE -> Bson_String("Recipe title")
          [] k = JSON_ATTR_TAGS ->
                Bson_Array(<<Bson_String("vegan"), Bson_String("fast")>>)
          [] k = JSON_ATTR_IMAGE -> Bson_Null
          [] k = JSON_ATTR_INSTRUCTIONS ->
                Bson_Array(<<Bson_String("do it"), Bson_String("do that"),
                             Bson_String("do this")>>)
          [] k = JSON_ATTR_DEFAULT_SERVINGS -> Bson_Int32(2)]

\* create_basic_recipe_doc as a writer using the wire format's key names stores
\* it: the last-modified timestamp under lastModified
wire_format_recipe_doc ==
    Document_insert(Document_remove(create_basic_recipe_doc, JSON_ATTR_LAST_MODIFIED),
                    "lastModified", create_basic_recipe_doc[JSON_ATTR_LAST_MODIFIED])

\* the ways a stored value can be wrong: the key is absent, holds null, holds a
\* value of another type, or holds a value of the right type that is malformed
BreakWays == {"absent", "null", "mistyped", "malformed"}

BrokenValue(k, how) ==
    CASE how = "null" -> Bson_Null
      [] how = "mistyped" -> Bson_Boolean(TRUE)
      [] how = "malformed" ->
            CASE k = JSON_ATTR_INGREDIENTS ->
                    Bson_Array(<<Bson_from_Ingredient(cheese), ing_no_amount>>)
              [] k \in {JSON_ATTR_TAGS, JSON_ATTR_INSTRUCTIONS} ->
                    Bson_Array(<<Bson_Null, Bson_String("vegan")>>)
              [] k = JSON_ATTR_DIFFICULTY -> Bson_String("easy")
              [] k \in {JSON_ATTR_COOKING_TIME, JSON_ATTR_VERSION,
                        JSON_ATTR_DEFAULT_SERVINGS} -> Bson_Int64(1)
              [] OTHER -> Bson_String("2020-06-01T10:00:00Z")

\* the document d with the keys of S made wrong in the given way
Broken(d, S, how) ==
    [k \in (IF how = "absent" THEN DOMAIN d \ S ELSE DOMAIN d) |->
        IF k \in S THEN BrokenValue(k, how) ELSE d[k]]

\* stored documents in which up to MaxInvalid values are wrong
BrokenDocs ==
    {Broken(create_basic_recipe_doc, S, how) :
        S \in {T \in SUBSET DOMAIN create_basic_recipe_doc : Cardinality(T) <= MaxInvalid},
        how \in BreakWays}

\* a Recipe as the service holds one in memory (dao_tests::create_recipe /
\* a request body), and a second one differing from it in every field
basic_recipe ==
    [f \in {RecipeFields[i] : i \in 1 .. Len(RecipeFields)} |->
        CASE f = "_id" -> "oid1"
          [] f = "cooking_time_in_minutes" -> 2
          [] f = "created" -> "2020-06-01T10:00:00Z"
          [] f = "last_modified" -> "2020-06-02T11:30:00Z"
          [] f = "ingredients" -> <<cheese, bread>>
          [] f = "version" -> 1
          [] f = "difficulty" -> "Difficulty::Easy"
          [] f = "description" -> "Recipe desciption"
          [] f = "title" -> "Recipe title"
          [] f = "tags" -> <<"vegan", "fast">>
          [] f = "image_oid" -> None
          [] f = "instructions" -> <<"do it", "do that", "do this">>
          [] f = "default_servings" -> 2]

other_recipe ==
    [f \in {RecipeFields[i] : i \in 1 .. Len(RecipeFields)} |->
        CASE f = "_id" -> "oid2"
          [] f = "cooking_time_in_minutes" -> 0
          [] f = "created" -> "2020-06-02T11:30:00Z"
          [] f = "last_modified" -> "2020-06-01T10:00:00Z"
          [] f = "ingredients" -> <<>>
          [] f = "version" -> U32_MAX
          [] f = "difficulty" -> "Difficulty::Hard"
          [] f = "description" -> ""
          [] f = "title" -> ""
          [] f = "tags" -> <<>>
          [] f = "image_oid" -> Some("oid1")
          [] f = "instructions" -> <<>>
          [] f = "default_servings" -> 1]

\* the values a run may give a field of a Recipe
FieldValues(f) ==
    CASE f \in {"_id"} -> ObjectIds
      [] f \in {"cooking_time_in_minutes", "version", "default_servings"} -> U32
      [] f \in {"created", "last_modified"} -> DateTimes
      [] f = "ingredients" ->
            {<<>>, <<cheese>>, <<bread, cheese>>, <<water, bread, cheese>>}
      [] f = "difficulty" -> Difficulty
      [] f \in {"description", "title"} -> {"", "Recipe title", "Easy"}
      [] f \in {"tags", "instructions"} ->
            {<<>>, <<"vegan">>, <<"fast", "vegan">>, <<"vegan", "fast", "">>}
      [] f = "image_oid" -> {None, Some("oid1"), Some("oid2")}

\* strings handed to the enumeration parsers: the literals, and strings that
\* differ from a literal in case, surrounding blanks or a letter
StringSamples ==
    {"Easy", "Medium", "Hard", "easy", "EASY", "medium", " Easy", "Hard ", "",
     "Super Hard", "Kilogramm", "Gramm", "Milliliter", "Liter", "Piece", "Pack",
     "kilogramm", "grammm", "Gram", " Liter", "pack", "PIECE",
     "Difficulty::Easy", "MeasurementUnit::Pack"}

\* Option<usize> and Option<i32> values of a Pagination
OptionUsize == {None} \cup {Some(n) : n \in 0 .. MaxPage}
OptionI32 == {None} \cup {Some(n) : n \in I32}

Paginations ==
    {Pagination_new(p, i, o) : p \in OptionUsize, i \in OptionUsize, o \in OptionI32}

\* the ids a request may name: those generated so far (stored or deleted
\* since) and one that was never generated
RequestIds(n) == {StoreIds[i] : i \in 1 .. n + 1}

\* the "id" segment of a request path: absent, an ObjectId a request may
\* name, or a string that is no ObjectId
PathIds(n) == {None} \cup {Some(x) : x \in RequestIds(n) \cup {"", "12345"}}

\* the images update_one_recipe_image is given (dao_tests::update_one_recipe_image_test)
DaoImages == {None, Some("new_image")}

\* the recipes the Dao is given: with and without image, and the first two
\* with the title (and the image) changed, as update_one_recipe_ignore_image_test
\* changes them
DaoRecipes ==
    {basic_recipe, other_recipe,
     [other_recipe EXCEPT !["title"] = "new", !["image_oid"] = Some("oid2")],
     [basic_recipe EXCEPT !["title"] = "new"]}

\* the query parameters of a GET /recipes request: each of page, items and
\* sorting absent, zero, or set to a value in or out of its range
RequestPaginations ==
    {Pagination_new(p, i, o) :
        p \in {None, Some(0), Some(1), Some(MaxPage)},
        i \in {None, Some(0), Some(1), Some(MaxPage)},
        o \in {None, Some(-1), Some(0), Some(1), Some(2), Some(I32_MIN)}}

\* the paginations a caller of Dao::get_many_recipes passes: none, or one
\* with page >= 1, items >= 1 and sorting 1 or -1
DaoPaginations ==
    {None} \cup {Some(p) : p \in {q \in Paginations : is_fully_set(q)}}

---------------------------------------------------------------------------
(* The runs *)

Init ==
    /\ collection = <<>>
    /\ db_ops = <<>>
    /\ inserted = 0
    /\ pending = {}
    /\ edits = 0
    /\ parsed = None
    /\ parsed0 = None
    /\ doc0 = None
    /\ extracted = None
    /\ call = None
    /\ \/ pc = "recipe" /\ recipe \in {basic_recipe, other_recipe} /\ doc = Document_new
       \/ /\ pc = "doc"
          /\ recipe = None
          /\ doc \in {Document_new, create_basic_recipe_doc, wire_format_recipe_doc}
       \/ pc = "call" /\ recipe = None /\ doc = Document_new

\* the caller builds the Recipe: a field of the struct is given a value
SetField ==
    /\ pc = "recipe"
    /\ edits < MaxEdits
    /\ \E f \in DOMAIN recipe : \E v \in FieldValues(f) :
          recipe' = [recipe EXCEPT ![f] = v]
    /\ edits' = edits + 1
    /\ UNCHANGED <<pc, doc, parsed, parsed0, doc0, extracted, call,
                   collection, db_ops, inserted, pending>>

\* Document::from(recipe)
DocumentFromRecipe ==
    /\ pc = "recipe"
    /\ doc' = Document_from_Recipe(recipe)
    /\ pc' = "serialized"
    /\ UNCHANGED <<recipe, edits, parsed, parsed0, doc0, extracted, call,
                   collection, db_ops, inserted, pending>>

\* the store gives the inserted document its `_id` (insert_one of a document
\* without one), so that a document read back holds the key
StoreAssignId ==
    /\ pc = "serialized"
    /\ JSON_ATTR_ID \notin DOMAIN doc
    /\ \E oid \in ObjectIds : doc' = Document_insert(doc, JSON_ATTR_ID, Bson_ObjectId(oid))
    /\ UNCHANGED <<pc, recipe, edits, parsed, parsed0, doc0, extracted, call,
                   collection, db_ops, inserted, pending>>

\* doc.insert(key, value) on the raw document
DocInsert ==
    /\ pc = "doc"
    /\ edits < MaxEdits
    /\ \E k \in EditKeys : \E v \in KeyValues(k) : doc' = Document_insert(doc, k, v)
    /\ edits' = edits + 1
    /\ UNCHANGED <<pc, recipe, parsed, parsed0, doc0, extracted, call,
                   collection, db_ops, inserted, pending>>

\* doc.remove(key) on the raw document
DocRemove ==
    /\ pc = "doc"
    /\ edits < MaxEdits
    /\ \E k \in DOMAIN doc : doc' = Document_remove(doc, k)
    /\ edits' = edits + 1
    /\ UNCHANGED <<pc, recipe, parsed, parsed0, doc0, extracted, call,
                   collection, db_ops, inserted, pending>>

\* Recipe::extract_<field>(&doc), called on its own as recipe_tests does
ExtractField ==
    /\ pc \in {"doc", "serialized"}
    /\ \E i \in 1 .. Len(RecipeFields) :
          extracted' = [field |-> RecipeFields[i],
                        res |-> extract_field(RecipeFields[i], doc)]
    /\ pc' = "extracted"
    /\ UNCHANGED <<recipe, doc, edits, parsed, parsed0, doc0, call,
                   collection, db_ops, inserted, pending>>

\* Recipe::try_from(doc)
RecipeTryFrom ==
    /\ pc \in {"doc", "serialized"}
    /\ parsed' = Recipe_try_from(doc)
    /\ pc' = "parsed"
    /\ UNCHANGED <<recipe, doc, edits, parsed0, doc0, extracted, call,
                   collection, db_ops, inserted, pending>>

\* Document::from(recipe) of the Recipe just parsed: the second trip
DocumentFromParsed ==
    /\ pc = "parsed"
    /\ is_ok(parsed)
    /\ parsed0 = None
    /\ recipe' = parsed.v
    /\ doc' = Document_from_Recipe(parsed.v)
    /\ parsed0' = parsed
    /\ doc0' = doc
    /\ parsed' = None
    /\ pc' = "serialized"
    /\ UNCHANGED <<edits, extracted, call,
                   collection, db_ops, inserted, pending>>

\* Difficulty::try_from(s), of a sample string or of what to_string returned
DifficultyTryFrom ==
    /\ pc = "call"
    /\ \E s \in (IF call = None THEN StringSamples
                 ELSE IF call.fn = "Difficulty::to_string" THEN {call.ret} ELSE {}) :
          call' = [fn |-> "Difficulty::try_from", arg |-> s,
                   ret |-> Difficulty_try_from(s), prev |-> call]
    /\ UNCHANGED <<pc, recipe, doc, edits, parsed, parsed0, doc0, extracted,
                   collection, db_ops, inserted, pending>>

\* difficulty.to_string()
DifficultyToString ==
    /\ pc = "call"
    /\ call = None
    /\ \E d \in Difficulty :
          call' = [fn |-> "Difficulty::to_string", arg |-> d,
                   ret |-> Difficulty_to_string(d), prev |-> call]
    /\ UNCHANGED <<pc, recipe, doc, edits, parsed, parsed0, doc0, extracted,
                   collection, db_ops, inserted, pending>>

\* Bson::from(difficulty)
BsonFromDifficulty ==
    /\ pc = "call"
    /\ call = None
    /\ \E d \in Difficulty :
          call' = [fn |-> "Bson::from(Difficulty)", arg |-> d,
                   ret |-> Bson_from_Difficulty(d), prev |-> call]
    /\ UNCHANGED <<pc, recipe, doc, edits, parsed, parsed0, doc0, extracted,
                   collection, db_ops, inserted, pending>>

\* MeasurementUnit::try_from(s), of a sample string or of what to_string returned
MeasurementUnitTryFrom ==
    /\ pc = "call"
    /\ \E s \in (IF call = None THEN StringSamples
                 ELSE IF call.fn = "MeasurementUnit::to_string" THEN {call.ret} ELSE {}) :
          call' = [fn |-> "MeasurementUnit::try_from", arg |-> s,
                   ret |-> MeasurementUnit_try_from(s), prev |-> call]
    /\ UNCHANGED <<pc, recipe, doc, edits, parsed, parsed0, doc0, extracted,
                   collection, db_ops, inserted, pending>>

\* unit.to_string()
MeasurementUnitToString ==
    /\ pc = "call"
    /\ call = None
    /\ \E u \in MeasurementUnit :
          call' = [fn |-> "MeasurementUnit::to_string", arg |-> u,
                   ret |-> MeasurementUnit_to_string(u), prev |-> call]
    /\ UNCHANGED <<pc, recipe, doc, edits, parsed, parsed0, doc0, extracted,
                   collection, db_ops, inserted, pending>>

\* Bson::from(unit)
BsonFromMeasurementUnit ==
    /\ pc = "call"
    /\ call = None
    /\ \E u \in MeasurementUnit :
          call' = [fn |-> "Bson::from(MeasurementUnit)", arg |-> u,
                   ret |-> Bson_from_MeasurementUnit(u), prev |-> call]
    /\ UNCHANGED <<pc, recipe, doc, edits, parsed, parsed0, doc0, extracted,
                   collection, db_ops, inserted, pending>>

\* pagination.is_fully_set()
PaginationIsFullySet ==
    /\ pc = "call"
    /\ call = None
    /\ \E p \in Paginations :
          call' = [fn |-> "Pagination::is_fully_set", arg |-> p,
                   ret |-> is_fully_set(p), prev |-> call]
    /\ UNCHANGED <<pc, recipe, doc, edits, parsed, parsed0, doc0, extracted,
                   collection, db_ops, inserted, pending>>

\* pagination.is_fully_empty(), on the value is_fully_set was asked about
PaginationIsFullyEmpty ==
    /\ pc = "call"
    /\ call # None
    /\ call.fn = "Pagination::is_fully_set"
    /\ call' = [fn |-> "Pagination::is_fully_empty", arg |-> call.arg,
                ret |-> is_fully_empty(call.arg), prev |-> call]
    /\ UNCHANGED <<pc, recipe, doc, edits, parsed, parsed0, doc0, extracted,
                   collection, db_ops, inserted, pending>>

\* Ingredient::try_from(bson), of a raw value or of what Bson::from returned
IngredientTryFrom ==
    /\ pc = "call"
    /\ \E b \in (IF call = None THEN RawIngredients
                 ELSE IF call.fn = "Bson::from(Ingredient)" THEN {call.ret} ELSE {}) :
          call' = [fn |-> "Ingredient::try_from", arg |-> b,
                   ret |-> Ingredient_try_from(b), prev |-> call]
    /\ UNCHANGED <<pc, recipe, doc, edits, parsed, parsed0, doc0, extracted,
                   collection, db_ops, inserted, pending>>

\* Bson::from(ingredient)
BsonFromIngredient ==
    /\ pc = "call"
    /\ call = None
    /\ \E i \in Ingredients :
          call' = [fn |-> "Bson::from(Ingredient)", arg |-> i,
                   ret |-> Bson_from_Ingredient(i), prev |-> call]
    /\ UNCHANGED <<pc, recipe, doc, edits, parsed, parsed0, doc0, extracted,
                   collection, db_ops, inserted, pending>>

Next ==
    \/ SetField
    \/ DocumentFromRecipe
    \/ StoreAssignId
    \/ DocInsert
    \/ DocRemove
    \/ ExtractField
    \/ RecipeTryFrom
    \/ DocumentFromParsed
    \/ DifficultyTryFrom
    \/ DifficultyToString
    \/ BsonFromDifficulty
    \/ MeasurementUnitTryFrom
    \/ MeasurementUnitToString
    \/ BsonFromMeasurementUnit
    \/ PaginationIsFullySet
    \/ PaginationIsFullyEmpty
    \/ IngredientTryFrom
    \/ BsonFromIngredient

Spec == Init /\ [][Next]_vars

\* Runs that parse a stored document in which several values are wrong
InitOrder ==
    /\ collection = <<>>
    /\ db_ops = <<>>
    /\ inserted = 0
    /\ pending = {}
    /\ edits = 0
    /\ parsed = None
    /\ parsed0 = None
    /\ doc0 = None
    /\ extracted = None
    /\ call = None
    /\ pc = "doc"
    /\ recipe = None
    /\ doc \in BrokenDocs

NextOrder ==
    \/ ExtractField
    \/ RecipeTryFrom

SpecOrder == InitOrder /\ [][NextOrder]_vars

\* Runs of the Dao and the list handler on the recipe collection
InitDao ==
    /\ collection = <<>>
    /\ db_ops = <<>>
    /\ inserted = 0
    /\ pending = {}
    /\ edits = 0
    /\ parsed = None
    /\ parsed0 = None
    /\ doc0 = None
    /\ extracted = None
    /\ call = None
    /\ pc = "dao"
    /\ recipe = None
    /\ doc = Document_new

\* dao.add_one_recipe(recipe)
DaoAddOneRecipe ==
    /\ pc = "dao"
    /\ inserted < MaxStored
    /\ \E r \in DaoRecipes, up \in BOOLEAN :
          LET res == Dao_add_one_recipe(collection, r, StoreIds[inserted + 1], up)
          IN  /\ collection' = res.coll
              /\ db_ops' = res.ops
              /\ inserted' = inserted + (Len(res.coll) - Len(collection))
              /\ call' = [fn |-> "Dao::add_one_recipe", arg |-> r, ret |-> res.ret]
    /\ pc' = "answered"
    /\ UNCHANGED <<recipe, doc, edits, parsed, parsed0, doc0, extracted, pending>>

\* dao.update_one_recipe_ignore_image(id, recipe)
DaoUpdateOneRecipeIgnoreImage ==
    /\ pc = "dao"
    /\ \E id \in RequestIds(inserted), r \in DaoRecipes, up \in BOOLEAN :
          LET res == Dao_update_one_recipe_ignore_image(collection, id, r, up)
          IN  /\ collection' = res.coll
              /\ db_ops' = res.ops
              /\ call' = [fn |-> "Dao::update_one_recipe_ignore_image",
                          arg |-> [id |-> id, recipe |-> r], ret |-> res.ret]
    /\ pc' = "answered"
    /\ UNCHANGED <<recipe, doc, edits, parsed, parsed0, doc0, extracted,
                   inserted, pending>>

\* dao.get_many_recipes(pagination)
DaoGetManyRecipes ==
    /\ pc = "dao"
    /\ \E pg \in DaoPaginations, up \in BOOLEAN :
          \E order \in find_orders(collection,
                                   IF is_some(pg) THEN pg.v.sorting ELSE None) :
             LET res == get_many_recipes(collection, pg, up, order)
             IN  /\ db_ops' = res.ops
                 /\ call' = [fn |-> "Dao::get_many_recipes", arg |-> pg, ret |-> res.ret]
    /\ pc' = "answered"
    /\ UNCHANGED <<recipe, doc, edits, parsed, parsed0, doc0, extracted, collection,
                   inserted, pending>>

\* GET /recipes: RecipeRoutes::get_many_recipes(params, database)
RoutesGetManyRecipes ==
    /\ pc = "dao"
    /\ \E params \in RequestPaginations, up \in BOOLEAN :
          \E order \in find_orders(collection,
                                   IF is_fully_set(params) THEN params.sorting ELSE None) :
             LET res == RecipeRoutes_get_many_recipes(collection, params, up, order)
             IN  /\ db_ops' = res.ops
                 /\ call' = [fn |-> "RecipeRoutes::get_many_recipes", arg |-> params,
                             ret |-> res.response]
    /\ pc' = "answered"
    /\ UNCHANGED <<recipe, doc, edits, parsed, parsed0, doc0, extracted, collection,
                   inserted, pending>>

\* dao.add_many_recipes(recipes)
DaoAddManyRecipes ==
    /\ pc = "dao"
    /\ inserted + 2 <= MaxStored
    /\ \E r1 \in DaoRecipes, r2 \in DaoRecipes, up \in BOOLEAN :
          LET res == Dao_add_many_recipes(collection, <<r1, r2>>,
                                          <<StoreIds[inserted + 1], StoreIds[inserted + 2]>>, up)
          IN  /\ collection' = res.coll
              /\ db_ops' = res.ops
              /\ inserted' = inserted + (Len(res.coll) - Len(collection))
              /\ call' = [fn |-> "Dao::add_many_recipes", arg |-> <<r1, r2>>, ret |-> res.ret]
    /\ pc' = "answered"
    /\ UNCHANGED <<recipe, doc, edits, parsed, parsed0, doc0, extracted, pending>>

\* dao.get_one_recipe_without_image(id)
DaoGetOneRecipeWithoutImage ==
    /\ pc = "dao"
    /\ \E id \in RequestIds(inserted), up \in BOOLEAN :
          LET res == Dao_get_one_recipe_without_image(collection, id, up)
          IN  /\ db_ops' = res.ops
              /\ call' = [fn |-> "Dao::get_one_recipe_without_image", arg |-> id,
                          ret |-> res.ret]
    /\ pc' = "answered"
    /\ UNCHANGED <<recipe, doc, edits, parsed, parsed0, doc0, extracted, collection,
                   inserted, pending>>

\* dao.get_one_recipe_image(id)
DaoGetOneRecipeImage ==
    /\ pc = "dao"
    /\ \E id \in RequestIds(inserted), up \in BOOLEAN :
          LET res == Dao_get_one_recipe_image(collection, id, up)
          IN  /\ db_ops' = res.ops
              /\ call' = [fn |-> "Dao::get_one_recipe_image", arg |-> id, ret |-> res.ret]
    /\ pc' = "answered"
    /\ UNCHANGED <<recipe, doc, edits, parsed, parsed0, doc0, extracted, collection,
                   inserted, pending>>

\* dao.update_one_recipe_image(id, image)
DaoUpdateOneRecipeImage ==
    /\ pc = "dao"
    /\ \E id \in RequestIds(inserted), image \in DaoImages, up \in BOOLEAN :
          LET res == Dao_update_one_recipe_image(collection, id, image, up)
          IN  /\ collection' = res.coll
              /\ db_ops' = res.ops
              /\ call' = [fn |-> "Dao::update_one_recipe_image",
                          arg |-> [id |-> id, image |-> image], ret |-> res.ret]
    /\ pc' = "answered"
    /\ UNCHANGED <<recipe, doc, edits, parsed, parsed0, doc0, extracted, inserted, pending>>

\* dao.delete_one_recipe(id)
DaoDeleteOneRecipe ==
    /\ pc = "dao"
    /\ \E id \in RequestIds(inserted), up \in BOOLEAN :
          LET res == Dao_delete_one_recipe(collection, id, up)
          IN  /\ collection' = res.coll
              /\ db_ops' = res.ops
              /\ call' = [fn |-> "Dao::delete_one_recipe", arg |-> id, ret |-> res.ret]
    /\ pc' = "answered"
    /\ UNCHANGED <<recipe, doc, edits, parsed, parsed0, doc0, extracted, inserted, pending>>

\* DELETE /recipes/{id}: RecipeRoutes::delete_one_recipe(req, database)
RoutesDeleteOneRecipe ==
    /\ pc = "dao"
    /\ \E path_id \in PathIds(inserted), up \in BOOLEAN :
          LET res == RecipeRoutes_delete_one_recipe(collection, path_id, up)
          IN  /\ collection' = res.coll
              /\ db_ops' = res.ops
              /\ call' = [fn |-> "RecipeRoutes::delete_one_recipe", arg |-> path_id,
                          ret |-> res.response, dao |-> res.dao]
    /\ pc' = "answered"
    /\ UNCHANGED <<recipe, doc, edits, parsed, parsed0, doc0, extracted, inserted, pending>>

\* GET /recipes/{id}: RecipeRoutes::get_one_recipe_without_image(req, database)
RoutesGetOneRecipeWithoutImage ==
    /\ pc = "dao"
    /\ \E path_id \in PathIds(inserted), up \in BOOLEAN :
          LET res == RecipeRoutes_get_one_recipe_without_image(collection, path_id, up)
          IN  /\ db_ops' = res.ops
              /\ call' = [fn |-> "RecipeRoutes::get_one_recipe_without_image",
                          arg |-> path_id, ret |-> res.response, dao |-> res.dao]
    /\ pc' = "answered"
    /\ UNCHANGED <<recipe, doc, edits, parsed, parsed0, doc0, extracted, collection,
                   inserted, pending>>

\* DELETE /recipes/{id}/image: RecipeRoutes::delete_one_recipe_image(req, database)
RoutesDeleteOneRecipeImage ==
    /\ pc = "dao"
    /\ \E path_id \in PathIds(inserted), up \in BOOLEAN :
          LET res == RecipeRoutes_delete_one_recipe_image(collection, path_id, up)
          IN  /\ collection' = res.coll
              /\ db_ops' = res.ops
              /\ call' = [fn |-> "RecipeRoutes::delete_one_recipe_image", arg |-> path_id,
                          ret |-> res.response, dao |-> res.dao]
    /\ pc' = "answered"
    /\ UNCHANGED <<recipe, doc, edits, parsed, parsed0, doc0, extracted, inserted, pending>>

\* the call has returned (the response is sent): the service is idle again
DaoReturn ==
    /\ pc = "answered"
    /\ pc' = "dao"
    /\ call' = None
    /\ db_ops' = <<>>
    /\ UNCHANGED <<recipe, doc, edits, parsed, parsed0, doc0, extracted, collection,
                   inserted, pending>>

NextDao ==
    \/ DaoAddOneRecipe
    \/ DaoAddManyRecipes
    \/ DaoUpdateOneRecipeIgnoreImage
    \/ DaoGetManyRecipes
    \/ RoutesGetManyRecipes
    \/ DaoReturn

SpecDao == InitDao /\ [][NextDao]_vars

\* Runs of the id-addressed Dao methods and handlers
NextStore ==
    \/ DaoAddOneRecipe
    \/ DaoUpdateOneRecipeIgnoreImage
    \/ DaoUpdateOneRecipeImage
    \/ DaoGetOneRecipeImage
    \/ DaoGetOneRecipeWithoutImage
    \/ DaoDeleteOneRecipe
    \/ RoutesDeleteOneRecipe
    \/ RoutesGetOneRecipeWithoutImage
    \/ RoutesDeleteOneRecipeImage
    \/ DaoReturn

SpecStore == InitDao /\ [][NextStore]_vars

\* Runs of the listing over a collection whose images have been updated
NextListing ==
    \/ DaoAddOneRecipe
    \/ DaoUpdateOneRecipeImage
    \/ DaoGetManyRecipes
    \/ RoutesGetManyRecipes
    \/ DaoReturn

SpecListing == InitDao /\ [][NextListing]_vars

\* Two concurrent requests on one stored recipe: a recipe update and an image
\* update are in flight, and each reaches the store as one update_one
InitRace ==
    /\ \E r0 \in DaoRecipes :
          collection = Dao_add_one_recipe(<<>>, r0, StoreIds[1], TRUE).coll
    /\ inserted = 1
    /\ \E r \in DaoRecipes, image \in DaoImages :
          pending = {[fn |-> "Dao::update_one_recipe_ignore_image",
                      arg |-> [id |-> StoreIds[1], recipe |-> r], ret |-> None],
                     [fn |-> "Dao::update_one_recipe_image",
                      arg |-> [id |-> StoreIds[1], image |-> image], ret |-> None]}
    /\ db_ops = <<>>
    /\ edits = 0
    /\ parsed = None
    /\ parsed0 = None
    /\ doc0 = None
    /\ extracted = None
    /\ call = None
    /\ pc = "race"
    /\ recipe = None
    /\ doc = Document_new

\* the recipe update in flight reaches the store
RaceUpdateOneRecipeIgnoreImage ==
    /\ pc = "race"
    /\ \E c \in pending, up \in BOOLEAN :
          /\ c.fn = "Dao::update_one_recipe_ignore_image" /\ c.ret = None
          /\ LET res == Dao_update_one_recipe_ignore_image(collection, c.arg.id,
                                                           c.arg.recipe, up)
             IN  /\ collection' = res.coll
                 /\ db_ops' = res.ops
                 /\ call' = [c EXCEPT !.ret = res.ret]
                 /\ pending' = (pending \ {c}) \cup {[c EXCEPT !.ret = Some(res.ret)]}
    /\ UNCHANGED <<pc, recipe, doc, edits, parsed, parsed0, doc0, extracted, inserted>>

\* the image update in flight reaches the store
RaceUpdateOneRecipeImage ==
    /\ pc = "race"
    /\ \E c \in pending, up \in BOOLEAN :
          /\ c.fn = "Dao::update_one_recipe_image" /\ c.ret = None
          /\ LET res == Dao_update_one_recipe_image(collection, c.arg.id, c.arg.image, up)
             IN  /\ collection' = res.coll
                 /\ db_ops' = res.ops
                 /\ call' = [c EXCEPT !.ret = res.ret]
                 /\ pending' = (pending \ {c}) \cup {[c EXCEPT !.ret = Some(res.ret)]}
    /\ UNCHANGED <<pc, recipe, doc, edits, parsed, parsed0, doc0, extracted, inserted>>

NextRace ==
    \/ RaceUpdateOneRecipeIgnoreImage
    \/ RaceUpdateOneRecipeImage

SpecRace == InitRace /\ [][NextRace]_vars

---------------------------------------------------------------------------
(* Properties *)

\* the run went Recipe -> Document -> Recipe::try_from
RoundTripDone == pc = "parsed" /\ recipe # None

\* a direct call Recipe::extract_<f>(&doc) has returned
Extracted(f) == pc = "extracted" /\ extracted.field = f

\* the document holds an Int32 under the key
HoldsInt32(d, k) == k \in DOMAIN d /\ d[k].t = "Int32"

\* C1, as claimed: for every Recipe r with default servings >= 1,
\* Recipe::try_from(Document::from(r)) succeeds and equals r, identifier
\* included.
C1_RoundTripAsClaimed ==
    (RoundTripDone /\ doc = Document_from_Recipe(recipe)
        /\ recipe.default_servings >= 1)
    => parsed = Ok(recipe)

\* C1, amended: Document::from(r) holds no `_id`, and Recipe::try_from of it
\* fails; once the store has set `_id` the parse succeeds and returns r's
\* fields, with that `_id` as identifier; cooking time and default servings
\* come back unchanged when they are at most i32::MAX (and default servings
\* at least 1), a larger cooking time comes back 0 and default servings of 0
\* or above i32::MAX come back 1.
C1_RoundTripWithStoreId ==
    RoundTripDone =>
        IF JSON_ATTR_ID \notin DOMAIN doc THEN is_err(parsed)
        ELSE /\ is_ok(parsed)
             /\ parsed.v["_id"] = doc[JSON_ATTR_ID].v
             /\ \A f \in DOMAIN recipe \ {"_id", "cooking_time_in_minutes", "default_servings"} :
                    parsed.v[f] = recipe[f]
             /\ parsed.v.cooking_time_in_minutes =
                    IF recipe.cooking_time_in_minutes <= I32_MAX
                    THEN recipe.cooking_time_in_minutes ELSE 0
             /\ parsed.v.default_servings =
                    IF recipe.default_servings \in 1 .. I32_MAX
                    THEN recipe.default_servings ELSE 1
             /\ (/\ doc[JSON_ATTR_ID].v = recipe["_id"]
                 /\ recipe.cooking_time_in_minutes <= I32_MAX
                 /\ recipe.default_servings \in 1 .. I32_MAX
                 => parsed = Ok(recipe))

\* C1 witness: a recipe with an image, three ingredients and a version above
\* i32::MAX made the round trip through a document given its own `_id`
C1_Witness ==
    /\ RoundTripDone
    /\ parsed = Ok(recipe)
    /\ doc[JSON_ATTR_ID] = Bson_ObjectId(recipe["_id"])
    /\ is_some(recipe.image_oid)
    /\ recipe.version > I32_MAX

C3_CookingTimeClamp ==
    Extracted("cooking_time_in_minutes") =>
        IF HoldsInt32(doc, JSON_ATTR_COOKING_TIME)
        THEN extracted.res =
                Ok(IF doc[JSON_ATTR_COOKING_TIME].v < 0 THEN 0
                   ELSE doc[JSON_ATTR_COOKING_TIME].v)
        ELSE is_err(extracted.res)

\* C3 witness: the most negative cooking time was clamped to 0
C3_Witness ==
    /\ Extracted("cooking_time_in_minutes")
    /\ HoldsInt32(doc, JSON_ATTR_COOKING_TIME)
    /\ doc[JSON_ATTR_COOKING_TIME].v = I32_MIN
    /\ extracted.res = Ok(0)

\* C4: extract_default_servings returns Ok(1) for an Int32 x < 1, Ok(x) for
\* any other Int32 x, and an error when the key is absent or no Int32; every
\* successfully parsed recipe has default servings >= 1.
C4_DefaultServingsClamp ==
    /\ Extracted("default_servings") =>
          IF HoldsInt32(doc, JSON_ATTR_DEFAULT_SERVINGS)
          THEN extracted.res =
                  Ok(IF doc[JSON_ATTR_DEFAULT_SERVINGS].v < 1 THEN 1
                     ELSE doc[JSON_ATTR_DEFAULT_SERVINGS].v)
          ELSE is_err(extracted.res)
    /\ (pc = "parsed" /\ is_ok(parsed)) => parsed.v.default_servings >= 1

\* C4 witness: a document with default servings 0 parsed to a recipe with 1
C4_Witness ==
    /\ pc = "parsed"
    /\ is_ok(parsed)
    /\ doc[JSON_ATTR_DEFAULT_SERVINGS] = Bson_Int32(0)
    /\ parsed.v.default_servings = 1

\* the first document held a negative cooking time or default servings < 1
ClampedFirst ==
    /\ doc0 # None
    /\ \/ doc0[JSON_ATTR_COOKING_TIME].v < 0
       \/ doc0[JSON_ATTR_DEFAULT_SERVINGS].v < 1

\* C5, as claimed: a document with a negative cooking time or default
\* servings < 1 is parsed, the recipe converted back to a document and that
\* document parsed again: the second parse yields the same clamped values.
C5_IdempotentAsClaimed ==
    (pc = "parsed" /\ ClampedFirst /\ doc = Document_from_Recipe(recipe))
    => /\ is_ok(parsed)
       /\ parsed.v.cooking_time_in_minutes = parsed0.v.cooking_time_in_minutes
       /\ parsed.v.default_servings = parsed0.v.default_servings

\* C5, amended: the document the clamped recipe converts to holds the clamped
\* values (cooking time 0 for a negative one, default servings 1 for one
\* below 1), extract_cooking_time and extract_default_servings return them
\* from it, and Recipe::try_from of it fails for want of `_id` and, once the
\* store has set `_id`, succeeds with the same clamped values.
C5_IdempotentOnceStored ==
    ClampedFirst =>
        /\ parsed0.v.cooking_time_in_minutes =
              (IF doc0[JSON_ATTR_COOKING_TIME].v < 0 THEN 0
               ELSE doc0[JSON_ATTR_COOKING_TIME].v)
        /\ parsed0.v.default_servings =
              (IF doc0[JSON_ATTR_DEFAULT_SERVINGS].v < 1 THEN 1
               ELSE doc0[JSON_ATTR_DEFAULT_SERVINGS].v)
        /\ doc[JSON_ATTR_COOKING_TIME] = Bson_Int32(parsed0.v.cooking_time_in_minutes)
        /\ doc[JSON_ATTR_DEFAULT_SERVINGS] = Bson_Int32(parsed0.v.default_servings)
        /\ Extracted("cooking_time_in_minutes") =>
              extracted.res = Ok(parsed0.v.cooking_time_in_minutes)
        /\ Extracted("default_servings") =>
              extracted.res = Ok(parsed0.v.default_servings)
        /\ pc = "parsed" =>
              IF JSON_ATTR_ID \notin DOMAIN doc THEN is_err(parsed)
              ELSE /\ is_ok(parsed)
                   /\ parsed.v.cooking_time_in_minutes = parsed0.v.cooking_time_in_minutes
                   /\ parsed.v.default_servings = parsed0.v.default_servings

\* C5 witness: default servings 0 were clamped to 1 and came back as 1 from
\* the second parse
C5_Witness ==
    /\ pc = "parsed"
    /\ ClampedFirst
    /\ doc0[JSON_ATTR_DEFAULT_SERVINGS] = Bson_Int32(0)
    /\ is_ok(parsed)
    /\ parsed.v.default_servings = 1

\* a call of the named function has returned
Called(fn) == pc = "call" /\ call # None /\ call.fn = fn

\* such a call was given what the call before it returned
CalledOnReturn(fn) == Called(fn) /\ call.prev # None

DifficultyLiterals ==
    {<<"Difficulty::Easy", "Easy">>, <<"Difficulty::Medium", "Medium">>,
     <<"Difficulty::Hard", "Hard">>}

\* C6: Difficulty::try_from(s) succeeds exactly for "Easy", "Medium" and
\* "Hard"; try_from(d.to_string()) is d for every variant d; Bson::from(d)
\* is the string of d's literal.
C6_DifficultyStrict ==
    /\ Called("Difficulty::try_from") =>
          /\ is_ok(call.ret) <=> call.arg \in {"Easy", "Medium", "Hard"}
          /\ is_ok(call.ret) => <<call.ret.v, call.arg>> \in DifficultyLiterals
    /\ CalledOnReturn("Difficulty::try_from") => call.ret = Ok(call.prev.arg)
    /\ Called("Bson::from(Difficulty)") =>
          /\ call.ret.t = "String"
          /\ <<call.arg, call.ret.v>> \in DifficultyLiterals

\* C6 witness: Medium.to_string() was parsed back to Medium
C6_Witness ==
    /\ CalledOnReturn("Difficulty::try_from")
    /\ call.prev.arg = "Difficulty::Medium"
    /\ call.arg = "Medium"
    /\ call.ret = Ok("Difficulty::Medium")

UnitLiterals ==
    {<<"MeasurementUnit::Kilogramm", "Kilogramm">>, <<"MeasurementUnit::Gramm", "Gramm">>,
     <<"MeasurementUnit::Milliliter", "Milliliter">>, <<"MeasurementUnit::Liter", "Liter">>,
     <<"MeasurementUnit::Piece", "Piece">>, <<"MeasurementUnit::Pack", "Pack">>}

\* C7: MeasurementUnit::try_from(s) succeeds exactly for the six literals
\* (so "kilogramm", "grammm" and "" fail), and try_from(u.to_string()) is u
\* for every variant u.
C7_MeasurementUnitStrict ==
    /\ Called("MeasurementUnit::try_from") =>
          /\ is_ok(call.ret) <=>
                call.arg \in {"Kilogramm", "Gramm", "Milliliter", "Liter", "Piece", "Pack"}
          /\ is_ok(call.ret) => <<call.ret.v, call.arg>> \in UnitLiterals
    /\ CalledOnReturn("MeasurementUnit::try_from") => call.ret = Ok(call.prev.arg)

\* C7 witness: Kilogramm.to_string() was parsed back to Kilogramm
C7_Witness ==
    /\ CalledOnReturn("MeasurementUnit::try_from")
    /\ call.prev.arg = "MeasurementUnit::Kilogramm"
    /\ call.ret = Ok("MeasurementUnit::Kilogramm")

\* the document holds an array under the key
HoldsArray(d, k) == k \in DOMAIN d /\ d[k].t = "Array"

\* the positions of the array whose element Ingredient::try_from rejects
MalformedIngredients(a) == {i \in 1 .. Len(a) : is_err(Ingredient_try_from(a[i]))}

\* C8: if any element of the ingredients array fails Ingredient::try_from,
\* extract_ingredients and Recipe::try_from return an error, never a partial
\* list; otherwise extract_ingredients returns every element's ingredient, in
\* order, and the empty list for an empty array.
C8_IngredientsAtomic ==
    /\ (Extracted("ingredients") /\ HoldsArray(doc, JSON_ATTR_INGREDIENTS)) =>
          LET a == doc[JSON_ATTR_INGREDIENTS].v
          IN  IF MalformedIngredients(a) # {} THEN is_err(extracted.res)
              ELSE /\ is_ok(extracted.res)
                   /\ Len(extracted.res.v) = Len(a)
                   /\ \A i \in 1 .. Len(a) :
                         extracted.res.v[i] = Ingredient_try_from(a[i]).v
    /\ (pc = "parsed" /\ HoldsArray(doc, JSON_ATTR_INGREDIENTS)
          /\ MalformedIngredients(doc[JSON_ATTR_INGREDIENTS].v) # {}) => is_err(parsed)

\* C8 witness: one well-formed ingredient followed by one without amount, in
\* a document whose other fields are well-formed, failed the recipe's parse
C8_Witness ==
    /\ pc = "parsed"
    /\ HoldsArray(doc, JSON_ATTR_INGREDIENTS)
    /\ doc[JSON_ATTR_INGREDIENTS].v = <<Bson_from_Ingredient(cheese), ing_no_amount>>
    /\ parsed = Err("")

\* the key of the document a list-of-strings field is read from
StringListKey(f) == IF f = "tags" THEN JSON_ATTR_TAGS ELSE JSON_ATTR_INSTRUCTIONS

\* C9: extract_tags and extract_instructions succeed exactly when the key
\* holds an array all of whose elements are strings, and then return those
\* strings in the same order; a non-string element or a value that is no
\* array makes the field an error.
C9_StringLists ==
    \A f \in {"tags", "instructions"} :
        Extracted(f) =>
            LET k == StringListKey(f)
            IN  IF HoldsArray(doc, k) /\ \A i \in 1 .. Len(doc[k].v) : doc[k].v[i].t = "String"
                THEN /\ is_ok(extracted.res)
                     /\ Len(extracted.res.v) = Len(doc[k].v)
                     /\ \A i \in 1 .. Len(doc[k].v) : extracted.res.v[i] = doc[k].v[i].v
                ELSE is_err(extracted.res)

\* C9 witness: tags [null, "vegan"] were rejected
C9_Witness ==
    /\ Extracted("tags")
    /\ HoldsArray(doc, JSON_ATTR_TAGS)
    /\ doc[JSON_ATTR_TAGS].v = <<Bson_Null, Bson_String("vegan")>>
    /\ is_err(extracted.res)

\* C10: is_fully_empty is true iff page, items and sorting are all absent;
\* is_fully_set is true iff all three are present with page > 0, items > 0
\* and sorting 1 or -1; the two are never both true, and both are false for
\* a partially filled value.
C10_PaginationPredicates ==
    Called("Pagination::is_fully_empty") =>
        LET p == call.arg
            present == {f \in {"page", "items", "sorting"} : p[f] # None}
            fully_empty == call.ret
            fully_set == call.prev.ret
        IN  /\ fully_empty <=> present = {}
            /\ fully_set <=> /\ present = {"page", "items", "sorting"}
                             /\ p.page.v > 0
                             /\ p.items.v > 0
                             /\ p.sorting.v \in {1, -1}
            /\ ~(fully_empty /\ fully_set)
            /\ (present # {} /\ present # {"page", "items", "sorting"})
                  => ~fully_empty /\ ~fully_set

\* C10 witness: both predicates were false for a descriptor with page 0
C10_Witness ==
    /\ Called("Pagination::is_fully_empty")
    /\ call.arg = Pagination_new(Some(0), Some(1), Some(-1))
    /\ call.ret = FALSE
    /\ call.prev.ret = FALSE

---------------------------------------------------------------------------
(* Stored values, described by their raw shape *)

\* the BSON type a document holds under a key
RawType(d, k) == IF k \in DOMAIN d THEN d[k].t ELSE "absent"

\* an array whose elements are all strings
ArrayOfStrings(d, k) ==
    RawType(d, k) = "Array" /\ \A i \in 1 .. Len(d[k].v) : d[k].v[i].t = "String"

\* a nested document with id, amount, title and measurementUnit of the raw
\* types an ingredient needs, the unit being one of the six literals
WellFormedIngredient(b) ==
    /\ b.t = "Document"
    /\ RawType(b.v, "id") = "String"
    /\ RawType(b.v, "amount") = "Int32"
    /\ RawType(b.v, "title") = "String"
    /\ RawType(b.v, "measurementUnit") = "String"
    /\ \E l \in UnitLiterals : b.v["measurementUnit"].v = l[2]

\* the document holds, under key k, a value of the raw type field f needs
WellTypedAt(d, k, f) ==
    CASE f = "_id" -> RawType(d, k) = "ObjectId"
      [] f \in {"cooking_time_in_minutes", "version", "default_servings"} ->
            RawType(d, k) = "Int32"
      [] f \in {"created", "last_modified"} -> RawType(d, k) = "DateTime"
      [] f = "ingredients" ->
            /\ RawType(d, k) = "Array"
            /\ \A i \in 1 .. Len(d[k].v) : WellFormedIngredient(d[k].v[i])
      [] f = "difficulty" ->
            /\ RawType(d, k) = "String"
            /\ \E l \in DifficultyLiterals : d[k].v = l[2]
      [] f \in {"description", "title"} -> RawType(d, k) = "String"
      [] f \in {"tags", "instructions"} -> ArrayOfStrings(d, k)
      [] f = "image_oid" -> RawType(d, k) \in {"Null", "ObjectId"}

\* the key under which the mapper keeps a field
AttrOf(f) ==
    CASE f = "_id" -> JSON_ATTR_ID
      [] f = "cooking_time_in_minutes" -> JSON_ATTR_COOKING_TIME
      [] f = "created" -> JSON_ATTR_CREATED
      [] f = "last_modified" -> JSON_ATTR_LAST_MODIFIED
      [] f = "ingredients" -> JSON_ATTR_INGREDIENTS
      [] f = "version" -> JSON_ATTR_VERSION
      [] f = "difficulty" -> JSON_ATTR_DIFFICULTY
      [] f = "description" -> JSON_ATTR_DESCRIPTION
      [] f = "title" -> JSON_ATTR_TITLE
      [] f = "tags" -> JSON_ATTR_TAGS
      [] f = "image_oid" -> JSON_ATTR_IMAGE
      [] f = "instructions" -> JSON_ATTR_INSTRUCTIONS
      [] f = "default_servings" -> JSON_ATTR_DEFAULT_SERVINGS

\* the document holds, under the mapper's key of field f, a value of the raw
\* type the field needs
WellTypedField(d, f) == WellTypedAt(d, AttrOf(f), f)

\* positions, in extraction order, of the fields whose stored value is wrong
BadFields(d) == {i \in 1 .. Len(RecipeFields) : ~WellTypedField(d, RecipeFields[i])}

FirstBad(d) == CHOOSE i \in BadFields(d) : \A j \in BadFields(d) : i <= j

\* the messages with which the extraction of a field fails
FieldErrors(f) ==
    CASE f = "_id" -> {"Error getting  Object Id document"}
      [] f = "cooking_time_in_minutes" -> {"Error getting cooking timefrom document"}
      [] f = "created" -> {"Error getting created from document"}
      [] f = "last_modified" -> {"Error getting last modified from document"}
      [] f = "ingredients" -> {"Error getting ingredients from document", ""}
      [] f = "version" -> {"Error getting version from document"}
      [] f = "difficulty" -> {"Error getting difficulty from document",
                              "Difficulty does not match one predefined value"}
      [] f = "description" -> {"Error getting description from document"}
      [] f = "title" -> {"Error getting title from document"}
      [] f = "tags" -> {"Error getting tag from document"}
      [] f = "image_oid" -> {"Error getting image from document"}
      [] f = "instructions" -> {"Error getting instructions from document"}
      [] f = "default_servings" -> {"Error getting default_servings from document"}

\* C11: when several fields of a document are invalid, Recipe::try_from
\* returns the error of the first invalid field in the order id, cooking
\* time, created, last modified, ingredients, version, difficulty,
\* description, title, tags, image, instructions, default servings, and no
\* other field's error.
C11_FailFastOrder ==
    (pc = "parsed" /\ BadFields(doc) # {}) =>
        /\ is_err(parsed)
        /\ parsed.e \in FieldErrors(RecipeFields[FirstBad(doc)])
        /\ \A j \in 1 .. Len(RecipeFields) :
              j # FirstBad(doc) => parsed.e \notin FieldErrors(RecipeFields[j])

\* a parse of a document with three invalid fields, of which the first is
\* neither the first nor the last field extracted
C11_Witness ==
    /\ pc = "parsed"
    /\ Cardinality(BadFields(doc)) = 3
    /\ RecipeFields[FirstBad(doc)] = "ingredients"
    /\ ~WellTypedField(doc, "tags")
    /\ is_err(parsed)

\* the fields a message identifies: the empty message identifies none
FieldsNamedBy(e) ==
    {i \in 1 .. Len(RecipeFields) : e # "" /\ e \in FieldErrors(RecipeFields[i])}

\* C12: every error Recipe::try_from returns carries a non-empty message that
\* identifies the field that failed, also when the failure is a malformed
\* element of the ingredients array.
C12_ErrorsNameTheField ==
    (pc = "parsed" /\ is_err(parsed)) =>
        /\ parsed.e # ""
        /\ BadFields(doc) # {}
        /\ FieldsNamedBy(parsed.e) = {FirstBad(doc)}

\* C13: extract_version fails only when version is absent or no 32-bit
\* integer; a negative value x is accepted and returned as the unsigned value
\* x + 2^32 (2^IntBits at the model's width), neither rejected nor clamped,
\* and a non-negative x is returned unchanged.
C13_VersionSign ==
    Extracted("version") =>
        IF RawType(doc, JSON_ATTR_VERSION) = "Int32"
        THEN LET x == doc[JSON_ATTR_VERSION].v
             IN  /\ is_ok(extracted.res)
                 /\ x < 0 => extracted.res.v = x + 2 ^ IntBits
                 /\ x >= 0 => extracted.res.v = x
        ELSE is_err(extracted.res)

\* extract_version of a document whose version is -1 has returned 2^IntBits - 1
C13_Witness ==
    /\ Extracted("version")
    /\ RawType(doc, JSON_ATTR_VERSION) = "Int32"
    /\ doc[JSON_ATTR_VERSION].v = -1
    /\ extracted.res = Ok(U32_MAX)

\* C14: Ingredient::try_from succeeds exactly when the raw value is a nested
\* document with id (string), amount (32-bit integer), title (string) and
\* measurementUnit (a string that is one of the six unit literals), and then
\* returns exactly those four values; a missing, null or mistyped field or
\* an unknown unit string makes the whole ingredient an error.
C14_IngredientParse ==
    Called("Ingredient::try_from") =>
        /\ is_ok(call.ret) <=> WellFormedIngredient(call.arg)
        /\ is_ok(call.ret) =>
              /\ DOMAIN call.ret.v = {"id", "amount", "title", "measurement_unit"}
              /\ call.ret.v.id = call.arg.v["id"].v
              /\ call.ret.v.amount = call.arg.v["amount"].v
              /\ call.ret.v.title = call.arg.v["title"].v
              /\ <<call.ret.v.measurement_unit, call.arg.v["measurementUnit"].v>>
                    \in UnitLiterals

\* an ingredient document without amount was rejected
C14_Witness ==
    /\ Called("Ingredient::try_from")
    /\ call.prev = None
    /\ call.arg.t = "Document"
    /\ DOMAIN call.arg.v = {"id", "title", "measurementUnit"}
    /\ is_err(call.ret)

\* C15: for every Ingredient i, Bson::from(i) is a document with exactly the
\* keys id, amount, title and measurementUnit holding i's values, the unit as
\* its literal string, and Ingredient::try_from of that document succeeds and
\* returns the same four values.
C15_IngredientRoundTrip ==
    /\ Called("Bson::from(Ingredient)") =>
          /\ call.ret.t = "Document"
          /\ DOMAIN call.ret.v = {"id", "amount", "title", "measurementUnit"}
          /\ call.ret.v["id"] = [t |-> "String", v |-> call.arg.id]
          /\ call.ret.v["amount"] = [t |-> "Int32", v |-> call.arg.amount]
          /\ call.ret.v["title"] = [t |-> "String", v |-> call.arg.title]
          /\ call.ret.v["measurementUnit"].t = "String"
          /\ <<call.arg.measurement_unit, call.ret.v["measurementUnit"].v>> \in UnitLiterals
    /\ CalledOnReturn("Ingredient::try_from") =>
          /\ is_ok(call.ret)
          /\ call.ret.v = call.prev.arg

\* an ingredient with a negative amount and an empty title came back unchanged
C15_Witness ==
    /\ CalledOnReturn("Ingredient::try_from")
    /\ call.prev.arg.amount = I32_MIN
    /\ call.prev.arg.title = ""
    /\ call.prev.arg.measurement_unit = "MeasurementUnit::Milliliter"
    /\ call.ret = Ok(call.prev.arg)

\* the wire format's key of a field
WireKey(f) ==
    CASE f = "_id" -> "_id"
      [] f = "cooking_time_in_minutes" -> "cookingTimeInMinutes"
      [] f = "created" -> "created"
      [] f = "last_modified" -> "lastModified"
      [] f = "ingredients" -> "ingredients"
      [] f = "version" -> "version"
      [] f = "difficulty" -> "difficulty"
      [] f = "description" -> "description"
      [] f = "title" -> "title"
      [] f = "tags" -> "tags"
      [] f = "image_oid" -> "image"
      [] f = "instructions" -> "instructions"
      [] f = "default_servings" -> "defaultServings"

\* C16: the recipe mapper writes the last-modified timestamp under the key
\* lastModified and the other fields under cookingTimeInMinutes, created,
\* ingredients, version, difficulty, description, title, tags, image,
\* instructions and defaultServings, and reads them from those keys, so that
\* a stored document that holds a well-typed value under each wire-format key
\* parses successfully.
C16_WireFormatKeys ==
    /\ pc = "serialized" =>
          DOMAIN doc \ {"_id"} =
              {WireKey(RecipeFields[i]) : i \in 2 .. Len(RecipeFields)}
    /\ (pc = "parsed" /\ \A i \in 1 .. Len(RecipeFields) :
                            WellTypedAt(doc, WireKey(RecipeFields[i]), RecipeFields[i]))
          => is_ok(parsed)

\* the thirteen keys of a stored recipe
RecipeKeys == {AttrOf(RecipeFields[i]) : i \in 1 .. Len(RecipeFields)}

\* the document without the keys that are none of the thirteen
OnlyRecipeKeys(d) == [k \in DOMAIN d \cap RecipeKeys |-> d[k]]

---------------------------------------------------------------------------
(* The list handler and the Dao *)

\* the handler GET /recipes has answered the request call.arg
ListAnswered == pc = "answered" /\ call.fn = "RecipeRoutes::get_many_recipes"

\* page, items and sorting are all given, page and items at least 1 and
\* sorting 1 or -1
AllGivenAndValid(q) ==
    /\ q.page # None /\ q.page.v >= 1
    /\ q.items # None /\ q.items.v >= 1
    /\ q.sorting # None /\ q.sorting.v \in {1, -1}

\* none of page, items and sorting is given
NoneGiven(q) == q.page = None /\ q.items = None /\ q.sorting = None

\* the one query of a paged listing of q
PagedFind(op, q) ==
    /\ op.op = "find"
    /\ op.sort = Some(q.sorting.v)
    /\ op.skip = (q.page.v - 1) * q.items.v
    /\ op.take = Some(q.items.v)
    /\ op.projection # None /\ JSON_ATTR_IMAGE \in op.projection.v.exclude

\* the one query of an unpaged listing: no sort, no projection, nothing
\* skipped, no limit
UnpagedFind(op) ==
    /\ op.op = "find"
    /\ op.sort = None /\ op.projection = None /\ op.skip = 0 /\ op.take = None

\* C18: the list handler runs one paged query when page, items and sorting are
\* all given and valid; one unpaged query when none is given, answering 200
\* with every stored recipe when the store is reachable; and in every other
\* case answers 400 Bad Request without any database operation.
C18_ListRequestDecision ==
    ListAnswered =>
        IF AllGivenAndValid(call.arg)
        THEN Len(db_ops) = 1 /\ PagedFind(db_ops[1], call.arg)
        ELSE IF NoneGiven(call.arg)
        THEN /\ Len(db_ops) = 1 /\ UnpagedFind(db_ops[1])
             /\ db_ops[1].ok =>
                  /\ call.ret.status = 200
                  /\ Len(call.ret.body.v) = Len(collection)
                  /\ \A i \in 1 .. Len(collection) :
                        /\ Bson_ObjectId(call.ret.body.v[i]._id) = collection[i][JSON_ATTR_ID]
                        /\ Document_from_Recipe(call.ret.body.v[i])
                             = Document_remove(collection[i], JSON_ATTR_ID)
        ELSE call.ret.status = 400 /\ db_ops = <<>>

\* a request with page = 0 has been answered 400 while the collection holds a
\* recipe, and no database operation was performed
C18_Witness ==
    /\ ListAnswered
    /\ call.arg.page = Some(0) /\ call.arg.items = Some(1) /\ call.arg.sorting = Some(1)
    /\ Len(collection) > 0
    /\ call.ret.status = 400 /\ db_ops = <<>>


\* Dao::get_many_recipes has answered a call with a pagination, and the store
\* was reachable
PagedListingAnswered ==
    /\ pc = "answered" /\ call.fn = "Dao::get_many_recipes"
    /\ call.arg # None
    /\ db_ops[1].ok

\* the stored documents whose created timestamp comes strictly before t in
\* the direction s (1 ascending, -1 descending)
StoredBefore(t, s) ==
    {j \in 1 .. Len(collection) :
        s * timestamp(collection[j][JSON_ATTR_CREATED].v) < s * timestamp(t)}

\* the stored documents whose created timestamp is t or comes before it
StoredUpTo(t, s) ==
    {j \in 1 .. Len(collection) :
        s * timestamp(collection[j][JSON_ATTR_CREATED].v) <= s * timestamp(t)}

\* rs is the page (skip, n) of the stored recipes ordered by created in the
\* direction s, each without its image
IsPageOfStored(rs, skip, n, s) ==
    LET N == Len(collection)
        rest == IF N > skip THEN N - skip ELSE 0
    IN  /\ Len(rs) = (IF rest < n THEN rest ELSE n)
        /\ \A i \in 1 .. Len(rs) :
              /\ rs[i].image_oid = None
              /\ \E j \in 1 .. Len(collection) :
                    /\ collection[j][JSON_ATTR_ID] = Bson_ObjectId(rs[i]._id)
                    /\ Document_remove(Document_from_Recipe(rs[i]), JSON_ATTR_IMAGE)
                         = Document_remove(Document_remove(collection[j], JSON_ATTR_ID),
                                           JSON_ATTR_IMAGE)
              /\ Cardinality(StoredBefore(rs[i].created, s)) <= skip + i - 1
              /\ Cardinality(StoredUpTo(rs[i].created, s)) >= skip + i
        /\ \A i, j \in 1 .. Len(rs) : i # j => rs[i]._id # rs[j]._id

\* C19: for a pagination (page p >= 1, items n >= 1, sorting s),
\* Dao::get_many_recipes returns the stored recipes ordered by created
\* (ascending for s = 1, descending for s = -1), skipping the first (p-1)*n
\* and returning at most n, each without image; a page past the end is the
\* empty list, not an error.
C19_PagedListing ==
    PagedListingAnswered =>
        LET q == call.arg.v
        IN  /\ is_ok(call.ret)
            /\ IsPageOfStored(call.ret.v, (q.page.v - 1) * q.items.v, q.items.v, q.sorting.v)


\* the step is a call of Dao::update_one_recipe_ignore_image being answered
UpdateIgnoreImageStep ==
    /\ pc = "dao" /\ pc' = "answered"
    /\ call'.fn = "Dao::update_one_recipe_ignore_image"

\* what the step does to the stored recipes: none is added or removed, no
\* image changes, and when the store is reachable and the recipe named by the
\* call is stored under another title than the call's, the call returns Ok
\* and the recipe is stored under the call's title
UpdateIgnoreImageEffect ==
    LET id == call'.arg.id
        r == call'.arg.recipe
    IN  /\ Len(collection') = Len(collection)
        /\ \A i \in 1 .. Len(collection) :
              /\ collection'[i][JSON_ATTR_ID] = collection[i][JSON_ATTR_ID]
              /\ collection'[i][JSON_ATTR_IMAGE] = collection[i][JSON_ATTR_IMAGE]
              /\ ( /\ db_ops'[1].ok
                   /\ collection[i][JSON_ATTR_ID] = Bson_ObjectId(id)
                   /\ collection[i][JSON_ATTR_TITLE] # Bson_String(r.title) )
                 => /\ call'.ret = Ok("()")
                    /\ collection'[i][JSON_ATTR_TITLE] = Bson_String(r.title)

\* C20: update_one_recipe_ignore_image(id, r') on a stored recipe with image
\* I, r' having a changed title and a different image, returns Ok, the
\* stored recipe then has r'.title and its image is still I; the operation
\* never modifies the image of any stored recipe.
C20_UpdateIgnoresImage == [][UpdateIgnoreImageStep => UpdateIgnoreImageEffect]_vars

\* an update with the title "new" and an image has returned Ok for a recipe
\* stored with another image: it is stored under "new" with the image it had
C20_Witness ==
    /\ pc = "answered" /\ call.fn = "Dao::update_one_recipe_ignore_image"
    /\ call.ret = Ok("()")
    /\ call.arg.recipe.title = "new"
    /\ call.arg.recipe.image_oid # None
    /\ \E i \in 1 .. Len(collection) :
          /\ collection[i][JSON_ATTR_ID] = Bson_ObjectId(call.arg.id)
          /\ collection[i][JSON_ATTR_TITLE] = Bson_String("new")
          /\ collection[i][JSON_ATTR_IMAGE].t = "ObjectId"
          /\ collection[i][JSON_ATTR_IMAGE] # Bson_ObjectId(call.arg.recipe.image_oid.v)


---------------------------------------------------------------------------
(* The id-addressed Dao methods and handlers *)

\* the step is the call fn being answered
AnsweredStep(fn) == pc = "dao" /\ pc' = "answered" /\ call'.fn = fn

\* the position of the stored document with _id id (0 when there is none)
StoredAt(coll, id) ==
    IF \E i \in 1 .. Len(coll) : coll[i][JSON_ATTR_ID] = Bson_ObjectId(id)
    THEN CHOOSE i \in 1 .. Len(coll) : coll[i][JSON_ATTR_ID] = Bson_ObjectId(id)
    ELSE 0

\* an answered update_one_recipe_image(id, image) on a stored id, the store
\* reachable: Ok, the stored image is the string given (Null when cleared),
\* and every other stored document is as it was
ImageUpdateEffect ==
    LET id == call'.arg.id
        at == StoredAt(collection, id)
    IN  (db_ops'[1].ok /\ at # 0) =>
           /\ call'.ret = Ok("()")
           /\ Len(collection') = Len(collection)
           /\ collection'[at][JSON_ATTR_IMAGE] =
                 (IF call'.arg.image = None THEN Bson_Null
                  ELSE Bson_String(call'.arg.image.v))
           /\ \A i \in 1 .. Len(collection) : i # at => collection'[i] = collection[i]

\* an answered get_one_recipe_image(id) on a stored id, the store reachable:
\* the stored image string, DocumentNotFound when the image was cleared
ImageGetEffect ==
    LET at == StoredAt(collection, call'.arg)
    IN  (db_ops'[1].ok /\ at # 0) =>
           /\ collection' = collection
           /\ collection[at][JSON_ATTR_IMAGE].t = "String"
                 => call'.ret = Ok(collection[at][JSON_ATTR_IMAGE].v)
           /\ collection[at][JSON_ATTR_IMAGE] = Bson_Null
                 => call'.ret = Err(DaoError_DocumentNotFound)

\* C21: for a stored recipe id, update_one_recipe_image(id, Some(x)) returns
\* Ok and a following get_one_recipe_image(id) returns x;
\* update_one_recipe_image(id, None) returns Ok and a following
\* get_one_recipe_image(id) returns DocumentNotFound; no other recipe's image
\* changes.
C21_ImageUpdateThenGet ==
    [][ /\ AnsweredStep("Dao::update_one_recipe_image") => ImageUpdateEffect
        /\ AnsweredStep("Dao::get_one_recipe_image") => ImageGetEffect ]_vars


\* coll without its document at position at
WithoutAt(coll, at) == SubSeq(coll, 1, at - 1) \o SubSeq(coll, at + 1, Len(coll))

\* an answered delete_one_recipe(id), the store reachable: Ok exactly when id
\* is stored, and then only that document is gone; otherwise DocumentNotFound
\* and the collection as it was
DeleteEffect ==
    LET at == StoredAt(collection, call'.arg)
    IN  db_ops'[1].ok =>
           /\ call'.ret = Ok("()") <=> at # 0
           /\ at # 0 => collection' = WithoutAt(collection, at)
           /\ at = 0 => /\ call'.ret = Err(DaoError_DocumentNotFound)
                        /\ collection' = collection

\* C22: delete_one_recipe(id) returns Ok exactly when a recipe with that id is
\* stored and then removes only that recipe; for an id that is not stored
\* (a second delete of the same id included) it returns DocumentNotFound and
\* leaves the collection unchanged.
C22_DeleteSemantics == [][AnsweredStep("Dao::delete_one_recipe") => DeleteEffect]_vars

\* a delete of an id that was stored once and deleted since has been answered
\* DocumentNotFound, another recipe being stored
C22_Witness ==
    /\ pc = "answered" /\ call.fn = "Dao::delete_one_recipe"
    /\ \E i \in 1 .. inserted : StoreIds[i] = call.arg
    /\ StoredAt(collection, call.arg) = 0
    /\ Len(collection) > 0
    /\ call.ret = Err(DaoError_DocumentNotFound)


\* Dao::get_one_recipe_without_image has answered a call, the store reachable
GetOneAnswered ==
    /\ pc = "answered" /\ call.fn = "Dao::get_one_recipe_without_image"
    /\ db_ops[1].ok

\* C23: for every stored recipe, with or without an image,
\* get_one_recipe_without_image(id) returns Ok with a recipe whose identifier
\* is id and whose image is absent; for an id that is not stored it returns
\* DocumentNotFound.
C23_GetOneWithoutImage ==
    GetOneAnswered =>
        IF StoredAt(collection, call.arg) # 0
        THEN /\ is_ok(call.ret)
             /\ call.ret.v._id = call.arg
             /\ call.ret.v.image_oid = None
        ELSE call.ret = Err(DaoError_DocumentNotFound)


\* the handlers of the routes that name a recipe by the id in their path
IdRoutes ==
    {"RecipeRoutes::delete_one_recipe", "RecipeRoutes::get_one_recipe_without_image",
     "RecipeRoutes::delete_one_recipe_image"}

\* the path holds an id that is an ObjectId
ValidPathId(path_id) ==
    path_id # None /\ path_id.v \in {StoreIds[i] : i \in 1 .. Len(StoreIds)}

\* the answer of an id-addressed handler: 400 and no database operation for a
\* path id that is no ObjectId; otherwise one Dao call, answered 200 for Ok,
\* 404 for DocumentNotFound, 500 for DatabaseError and RecipeFormatError; an id
\* with no stored recipe, the store reachable, is answered 404
IdRouteAnswer ==
    IF ~ValidPathId(call'.arg)
    THEN call'.ret.status = 400 /\ db_ops' = <<>> /\ call'.dao = None
    ELSE /\ call'.dao # None /\ Len(db_ops') = 1
         /\ call'.ret.status =
               (IF call'.dao.v.t = "Ok" THEN 200
                ELSE IF call'.dao.v.e = DaoError_DocumentNotFound THEN 404
                ELSE 500)
         /\ call'.dao.v.t = "Err" =>
               call'.dao.v.e.t \in {"DaoError::DocumentNotFound", "DaoError::DatabaseError",
                                    "DaoError::RecipeFormatError"}
         /\ ~db_ops'[1].ok => call'.ret.status = 500
         /\ (db_ops'[1].ok /\ StoredAt(collection, call'.arg.v) = 0)
               => call'.ret.status = 404
         /\ (db_ops'[1].ok /\ StoredAt(collection, call'.arg.v) # 0
               /\ call'.fn = "RecipeRoutes::delete_one_recipe")
               => call'.ret.status = 200 /\ StoredAt(collection', call'.arg.v) = 0

---------------------------------------------------------------------------
(* Identifiers of stored recipes *)

\* the _id values of the stored documents, in order
StoredIds(coll) == [i \in 1 .. Len(coll) |-> coll[i][JSON_ATTR_ID]]

\* an answered add_one_recipe(r), the store reachable: one document more,
\* stored under the ObjectId the driver generated, which is returned and is
\* not the recipe's own _id
AddOneEffect ==
    db_ops'[1].ok =>
       /\ JSON_ATTR_ID \notin DOMAIN Document_from_Recipe(call'.arg)
       /\ Len(collection') = Len(collection) + 1
       /\ SubSeq(collection', 1, Len(collection)) = collection
       /\ collection'[Len(collection')][JSON_ATTR_ID] = Bson_ObjectId(StoreIds[inserted + 1])
       /\ collection'[Len(collection')][JSON_ATTR_ID] # Bson_ObjectId(call'.arg._id)
       /\ call'.ret = Ok(collection'[Len(collection')][JSON_ATTR_ID])

\* an answered add_many_recipes(rs), the store reachable: one document more
\* per recipe, each under a generated ObjectId of its own, these ids returned
\* in order
AddManyEffect ==
    LET n == Len(call'.arg)
        base == Len(collection)
    IN  db_ops'[1].ok =>
           /\ Len(collection') = base + n
           /\ SubSeq(collection', 1, base) = collection
           /\ \A i \in 1 .. n :
                 /\ collection'[base + i][JSON_ATTR_ID] = Bson_ObjectId(StoreIds[inserted + i])
                 /\ collection'[base + i][JSON_ATTR_ID] # Bson_ObjectId(call'.arg[i]._id)
           /\ call'.ret = Ok(Bson_Array([i \in 1 .. n |-> collection'[base + i][JSON_ATTR_ID]]))

UpdateAnsweredStep ==
    /\ pc = "dao" /\ pc' = "answered"
    /\ call'.fn \in {"Dao::update_one_recipe_image", "Dao::update_one_recipe_ignore_image"}
    /\ db_ops'[1].ok

\* C26: update_one_recipe_image and update_one_recipe_ignore_image return
\* DocumentNotFound only when no recipe with the given id is stored; for a
\* stored id they return Ok, also when the new value equals what is stored.
C26_NotFoundOnlyWhenAbsent ==
    [][UpdateAnsweredStep =>
          IF StoredAt(collection, call'.arg.id) = 0
          THEN call'.ret = Err(DaoError_DocumentNotFound)
          ELSE call'.ret = Ok("()")]_vars


---------------------------------------------------------------------------
(* Concurrent updates of one recipe *)

\* the call fn in flight (or answered) in the race
RaceCall(fn) == CHOOSE c \in pending : c.fn = fn

\* both updates have reached the store (neither was answered DatabaseError)
BothApplied ==
    /\ pc = "race"
    /\ \A c \in pending :
          /\ c.ret # None
          /\ c.ret.v.t = "Err" => c.ret.v.e.t # "DaoError::DatabaseError"

\* C27: when update_one_recipe_ignore_image(id, r) and
\* update_one_recipe_image(id, img) run concurrently on one stored recipe, in
\* every interleaving the stored document ends with the non-image fields of r
\* and the image img.
C27_NoLostUpdate ==
    BothApplied =>
        LET r == RaceCall("Dao::update_one_recipe_ignore_image").arg.recipe
            img == RaceCall("Dao::update_one_recipe_image").arg.image
            stored == collection[1]
        IN  /\ Len(collection) = 1
            /\ stored[JSON_ATTR_ID] = Bson_ObjectId(StoreIds[1])
            /\ Document_remove(Document_remove(stored, JSON_ATTR_ID), JSON_ATTR_IMAGE)
                 = Document_remove(Document_from_Recipe(r), JSON_ATTR_IMAGE)
            /\ stored[JSON_ATTR_IMAGE] =
                 (IF img = None THEN Bson_Null ELSE Bson_String(img.v))

\* the image update went first and cleared an image, the recipe update, whose
\* recipe carries an image, went last, both returned Ok: the stored image is
\* null and the title is the recipe update's
C27_Witness ==
    /\ BothApplied
    /\ call.fn = "Dao::update_one_recipe_ignore_image"
    /\ \A c \in pending : c.ret = Some(Ok("()"))
    /\ RaceCall("Dao::update_one_recipe_image").arg.image = None
    /\ call.arg.recipe.image_oid # None
    /\ collection[1][JSON_ATTR_IMAGE] = Bson_Null
    /\ collection[1][JSON_ATTR_TITLE] = Bson_String(call.arg.recipe.title)


---------------------------------------------------------------------------
(* Listing a collection that holds a document the mapper rejects *)

\* the stored image of d is one Recipe::try_from accepts: null or an ObjectId
ImageParses(d) == d[JSON_ATTR_IMAGE].t \in {"Null", "ObjectId"}

\* an unpaged listing has been answered, the store reachable, and some stored
\* document has an image the mapper rejects
UnpagedOverMalformed ==
    /\ pc = "answered"
    /\ call.fn \in {"Dao::get_many_recipes", "RecipeRoutes::get_many_recipes"}
    /\ Len(db_ops) = 1 /\ db_ops[1].ok /\ db_ops[1].projection = None
    /\ \E i \in 1 .. Len(collection) : ~ImageParses(collection[i])

\* C28: if a document selected by get_many_recipes fails Recipe::try_from,
\* the whole call returns an error, a DaoError::DatabaseError and not a
\* RecipeFormatError, no partial list of the well-formed recipes is returned,
\* and the handler answers 500.
C28_ListingAllOrNothing ==
    /\ (pc = "answered" /\ call.fn = "Dao::get_many_recipes" /\ is_err(call.ret))
          => call.ret.e.t = "DaoError::DatabaseError"
    /\ UnpagedOverMalformed =>
          IF call.fn = "Dao::get_many_recipes"
          THEN is_err(call.ret)
          ELSE call.ret.status = 500 /\ call.ret.body = None

\* the handler has answered 500 to an unpaged listing of two stored recipes,
\* one well-formed and one whose image is a string
C28_Witness ==
    /\ pc = "answered" /\ call.fn = "RecipeRoutes::get_many_recipes"
    /\ Len(db_ops) = 1 /\ db_ops[1].ok /\ db_ops[1].projection = None
    /\ Len(collection) = 2
    /\ ImageParses(collection[1]) /\ ~ImageParses(collection[2])
    /\ call.ret.status = 500

====
